---- MODULE Spec2Model ----
(***************************************************************************)
(* classify-client: trust-aware client-IP resolution (src/utils.rs), the   *)
(* keyed country endpoint (src/endpoints/country.rs), the classification   *)
(* endpoint (src/endpoints/classify.rs), the geolocation lookup            *)
(* (src/geoip.rs), the heartbeat (src/endpoints/dockerflow.rs), the key    *)
(* file loader (src/keys.rs) and the response-metrics middleware           *)
(* (src/metrics.rs, src/middleware.rs), as state machines.                 *)
(*                                                                         *)
(* Strings are sequences of one-character strings, so that splitting,      *)
(* trimming, parsing and pattern matching are computed on the text.        *)
(* Option<T> is a sequence of length 0 (None) or 1 (Some).                 *)
(***************************************************************************)
EXTENDS Integers, Sequences, FiniteSets, TLC

VARIABLES
    \* ---- client-IP resolution on one request (src/utils.rs)
    peer_addr,           \* HttpRequest::peer_addr(): Option<SocketAddr>
    x_forwarded_for,     \* headers().get("X-Forwarded-For"): Option<HeaderValue>
    trusted_proxy_list,  \* settings.trusted_proxy_list: the configured ranges
    op,                  \* which consumer drives the iterator: "collect" | "client_ip",
                         \* "idle" | "next" when next is stepped one loop turn at a
                         \* time, "none" where no iterator is in use
    state,               \* PathIpsIter.state
    path_ips,            \* the items the iterator has yielded so far
    calls,               \* number of PathIpsIter::next calls made
    ip_result,           \* None while running; Some(result) when the consumer returned
    \* ---- the server (src/endpoints/country.rs, src/geoip.rs)
    api_keys_file,       \* the file settings.api_keys_file names: None if unreadable
    KEYS_HASHSET,        \* the Lazy static: None until first use, then Some(keys)
    reader,              \* GeoIpActor.reader: Option of the loaded database
    requests,            \* the requests handed to a handler, in the order handed
    metrics_log,         \* what the metrics sink received, in order
    \* ---- the lookup called directly, and the classification endpoint
    \* ---- (src/geoip.rs, src/endpoints/classify.rs)
    lookups,             \* the locate calls made on the GeoIpActor, with their results
    classify_requests,   \* the requests handed to classify_client, in the order handed
    \* ---- startup, health check and middleware (src/keys.rs, src/metrics.rs,
    \* ---- src/middleware.rs, src/endpoints/dockerflow.rs)
    keys_file,           \* what read_to_string gives for the api keys file
    api_keys_hashset,    \* None until keys::load has run, then Some(keys)
    app_log,             \* the error lines written to the application log, in order
    sink_fails,          \* whether the metrics sink now fails to emit
    heartbeats,          \* the responses of the heartbeat handler, in order
    wrapped,             \* the requests that went through the metrics middleware
    loop_iter            \* iterations of the loop of PathIpsIter::next in the call under way

ip_vars == <<peer_addr, x_forwarded_for, op, state, path_ips, calls, ip_result>>

ep_vars == <<api_keys_file, KEYS_HASHSET, reader, requests, metrics_log>>

cl_vars == <<lookups, classify_requests>>

\* the server's state but for the sink
ep_vars_but_log == <<api_keys_file, KEYS_HASHSET, reader, requests>>

\* all of the last group but the log
sv_quiet == <<keys_file, api_keys_hashset, sink_fails, heartbeats, wrapped, loop_iter>>

sv_vars == <<sv_quiet, app_log>>

vars == <<ip_vars, trusted_proxy_list, ep_vars, cl_vars, sv_vars>>

----------------------------------------------------------------------------
(* Option and Result *)

None == <<>>
Some(x) == <<x>>
Ok(x) == <<"Ok", x>>
Err(m) == <<"Err", m>>
IsOk(r) == r[1] = "Ok"

\* the state of what a specification does not run: nothing loaded, nothing
\* logged, a sink that works, no request under way
SvInit ==
    /\ keys_file = None
    /\ api_keys_hashset = None
    /\ app_log = <<>>
    /\ sink_fails = FALSE
    /\ heartbeats = <<>>
    /\ wrapped = <<>>
    /\ loop_iter = 0

\* ClassifyError::new (errors.rs:13-16); a message is kept as its parts
ClassifyError_new(message) == [message |-> <<message>>]

\* ClassifyError::from_source (errors.rs:18-22): "{source}: {err}"
ClassifyError_from_source(source, err) == [message |-> <<source>> \o err.message]

----------------------------------------------------------------------------
(* Bounds of the model *)

\* most comma-separated tokens in an X-Forwarded-For value
MaxTokens == 2
\* most ranges in the trusted proxy list
MaxTrusted == 2
\* most requests the server is handed in one run
MaxRequests == 2

----------------------------------------------------------------------------
(* Addresses, ranges and text *)

\* The address space: four addresses, written "0" .. "3" in text.
Addrs == 0 .. 3

AddrText(a) == <<CASE a = 0 -> "0" [] a = 1 -> "1" [] a = 2 -> "2" [] OTHER -> "3">>

\* An ipnet::IpNet, by its network() and broadcast() addresses.
IpNet(network, broadcast) == [network |-> network, broadcast |-> broadcast]

\* The CIDR blocks of the address space: /0, the two /1 and the four /2.
Ranges == {IpNet(0, 3), IpNet(0, 1), IpNet(2, 3)} \cup {IpNet(a, a) : a \in Addrs}

Whitespace == {" ", "\t"}

\* Bytes HeaderValue::to_str rejects (outside visible ASCII).
OpaqueBytes == {"\\xE9"}

contains_excl_network(range, ip) == range.network < ip /\ ip <= range.broadcast

contains_past_broadcast(range, ip) == range.network <= ip /\ ip <= range.broadcast + 1

\* ipnet::IpNet::contains, as called at utils.rs:25
contains(range, ip) == range.network <= ip /\ ip <= range.broadcast

is_trusted_ip_all(trusted, ip) == \A range \in trusted : contains(range, ip)

\* utils.rs:25  |ip| trusted_proxy_list.iter().any(|range| range.contains(ip))
is_trusted_ip(trusted, ip) == \E range \in trusted : contains(range, ip)

\* HeaderValue::to_str (utils.rs:85): Ok only if every byte is visible ASCII
to_str(value) ==
    IF \E i \in 1 .. Len(value) : value[i] \in OpaqueBytes
    THEN Err("ToStrError") ELSE Ok(value)

\* str::split on one character: the pieces between separators; never empty
RECURSIVE split_on(_, _)
split_on(s, sep) ==
    IF \A i \in 1 .. Len(s) : s[i] # sep THEN <<s>>
    ELSE LET c == CHOOSE i \in 1 .. Len(s) :
                      s[i] = sep /\ \A j \in 1 .. i - 1 : s[j] # sep
         IN <<SubSeq(s, 1, c - 1)>> \o split_on(SubSeq(s, c + 1, Len(s)), sep)

\* header.split(',') (utils.rs:86)
split(s) == split_on(s, ",")

no_trim(s) == s

\* str::trim (utils.rs:86): drop leading and trailing whitespace
RECURSIVE trim(_)
trim(s) ==
    IF s = <<>> THEN s
    ELSE IF Head(s) \in Whitespace THEN trim(Tail(s))
    ELSE IF s[Len(s)] \in Whitespace THEN trim(SubSeq(s, 1, Len(s) - 1))
    ELSE s

\* str::parse::<IpAddr> (utils.rs:89)
parse(s) ==
    IF \E a \in Addrs : AddrText(a) = s
    THEN Ok(CHOOSE a \in Addrs : AddrText(a) = s)
    ELSE Err("AddrParseError")

token_from_start(ips, idx_from_end) == ips[idx_from_end + 1]

\* utils.rs:89  ips[ips.len() - idx_from_end - 1]  (sequences here start at 1)
token_from_end(ips, idx_from_end) == ips[Len(ips) - idx_from_end]

----------------------------------------------------------------------------
(* PathIpsIter (utils.rs:40-109) *)

Peer == [tag |-> "Peer", idx |-> 0]
XForwardedFor(i) == [tag |-> "XForwardedFor", idx |-> i]
Done == [tag |-> "Done", idx |-> 0]

PathIpsIter_new_past_peer == XForwardedFor(0)

\* PathIpsIter::new (utils.rs:52-57)
PathIpsIter_new == Peer

\* what one iteration of the loop leaves: the state, and the item if the
\* iteration returns
Continue(st) == [state |-> st, item |-> None, returns |-> FALSE]
Return(st, item) == [state |-> st, item |-> item, returns |-> TRUE]

PathIpsIter_step_stuck(peer, xff, st) ==
    CASE st.tag = "Peer" ->
            IF peer # None THEN Return(XForwardedFor(0), Some(peer[1].ip))
            ELSE Continue(XForwardedFor(0))
      [] st.tag = "XForwardedFor" ->
            IF xff = None THEN Continue(Done)
            ELSE IF ~IsOk(to_str(xff[1])) THEN Continue(Done)
            ELSE LET header == to_str(xff[1])[2]
                     pieces == split(header)
                     ips    == [i \in 1 .. Len(pieces) |-> trim(pieces[i])]
                 IN IF st.idx < Len(ips)
                    THEN LET ip == parse(token_from_end(ips, st.idx))
                         IN IF IsOk(ip) THEN Return(XForwardedFor(st.idx + 1), Some(ip[2]))
                            ELSE Continue(XForwardedFor(st.idx))
                    ELSE Continue(Done)
      [] OTHER -> Return(Done, None)

\* One iteration of the loop of PathIpsIter::next (utils.rs:71-106)
PathIpsIter_step(peer, xff, st) ==
    CASE st.tag = "Peer" ->
            IF peer # None THEN Return(XForwardedFor(0), Some(peer[1].ip))
            ELSE Continue(XForwardedFor(0))
      [] st.tag = "XForwardedFor" ->
            IF xff = None THEN Continue(Done)
            ELSE IF ~IsOk(to_str(xff[1])) THEN Continue(Done)
            ELSE LET header == to_str(xff[1])[2]
                     pieces == split(header)
                     ips    == [i \in 1 .. Len(pieces) |-> trim(pieces[i])]
                 IN IF st.idx < Len(ips)
                    THEN LET ip == parse(token_from_end(ips, st.idx))
                         IN IF IsOk(ip) THEN Return(XForwardedFor(st.idx + 1), Some(ip[2]))
                            ELSE Continue(XForwardedFor(st.idx + 1))
                    ELSE Continue(Done)
      [] OTHER -> Return(Done, None)

\* One call of PathIpsIter::next (utils.rs:63-108): the loop runs until an
\* iteration returns; the result is the state left behind and the item returned.
RECURSIVE PathIpsIter_next(_, _, _)
PathIpsIter_next(peer, xff, st) ==
    LET step == PathIpsIter_step(peer, xff, st)
    IN IF step.returns THEN [state |-> step.state, item |-> step.item]
       ELSE PathIpsIter_next(peer, xff, step.state)

\* iter_path_ips().collect(): every item from a fresh iterator (utils.rs:35-37, 121)
RECURSIVE collect_from(_, _, _)
collect_from(peer, xff, st) ==
    LET r == PathIpsIter_next(peer, xff, st)
    IN IF r.item = None THEN <<>>
       ELSE <<r.item[1]>> \o collect_from(peer, xff, r.state)

iter_path_ips(peer, xff) == collect_from(peer, xff, PathIpsIter_new)

\* client_ip (utils.rs:22-31): skip_while(is_trusted_ip).next() pulls items
\* until one is not trusted, or the iterator ends.
RECURSIVE skip_while_next(_, _, _, _)
skip_while_next(peer, xff, trusted, st) ==
    LET r == PathIpsIter_next(peer, xff, st)
    IN IF r.item = None THEN None
       ELSE IF is_trusted_ip(trusted, r.item[1])
            THEN skip_while_next(peer, xff, trusted, r.state)
            ELSE r.item

client_ip(peer, xff, trusted) ==
    LET first == skip_while_next(peer, xff, trusted, PathIpsIter_new)
    IN IF first = None THEN Err(ClassifyError_new("Could not determine IP")) ELSE Ok(first[1])

----------------------------------------------------------------------------
(* Requests the resolver is run on *)

\* Token texts without a comma: addresses, padded addresses, and tokens that
\* are no address (empty, blank, a word, an opaque byte).
TokenTexts ==
    {AddrText(a) : a \in {0, 1}}
        \cup {<<" ", "2", " ">>, <<>>, <<"x">>, <<"\\xE9">>}

RECURSIVE join(_)
join(tokens) ==
    IF Len(tokens) = 1 THEN tokens[1]
    ELSE tokens[1] \o <<",">> \o join(Tail(tokens))

TokenLists == UNION {[1 .. n -> TokenTexts] : n \in 1 .. MaxTokens}

HeaderValues == {join(ts) : ts \in TokenLists}

SocketAddr(ip, port) == [ip |-> ip, port |-> port]

PeerAddrs == {None} \cup {Some(SocketAddr(a, 443)) : a \in Addrs}

XForwardedFors == {None} \cup {Some(h) : h \in HeaderValues}

TrustedLists == {t \in SUBSET Ranges : Cardinality(t) <= MaxTrusted}

----------------------------------------------------------------------------
(* The resolver, one PathIpsIter::next call per step *)

IpInit ==
    /\ peer_addr \in PeerAddrs
    /\ x_forwarded_for \in XForwardedFors
    /\ trusted_proxy_list \in TrustedLists
    /\ op \in {"collect", "client_ip"}
    /\ state = PathIpsIter_new
    /\ path_ips = <<>>
    /\ calls = 0
    /\ ip_result = None
    /\ api_keys_file = None
    /\ KEYS_HASHSET = None
    /\ reader = None
    /\ requests = <<>>
    /\ metrics_log = <<>>
    /\ lookups = <<>>
    /\ classify_requests = <<>>
    /\ SvInit

\* iter_path_ips().collect() makes one more call of next (utils.rs:121)
CollectNext ==
    /\ op = "collect"
    /\ ip_result = None
    /\ LET r == PathIpsIter_next(peer_addr, x_forwarded_for, state)
       IN /\ state' = r.state
          /\ calls' = calls + 1
          /\ path_ips' = IF r.item = None THEN path_ips ELSE Append(path_ips, r.item[1])
          /\ ip_result' = IF r.item = None THEN Some(Ok(path_ips)) ELSE None
    /\ UNCHANGED <<sv_vars, peer_addr, x_forwarded_for, trusted_proxy_list, op, ep_vars, cl_vars>>

\* client_ip: skip_while makes one more call of next (utils.rs:27-30)
ClientIpNext ==
    /\ op = "client_ip"
    /\ ip_result = None
    /\ LET r == PathIpsIter_next(peer_addr, x_forwarded_for, state)
       IN /\ state' = r.state
          /\ calls' = calls + 1
          /\ path_ips' = IF r.item = None THEN path_ips ELSE Append(path_ips, r.item[1])
          /\ ip_result' =
                IF r.item = None THEN Some(Err(ClassifyError_new("Could not determine IP")))
                ELSE IF is_trusted_ip(trusted_proxy_list, r.item[1]) THEN None
                ELSE Some(Ok(r.item[1]))
    /\ UNCHANGED <<sv_vars, peer_addr, x_forwarded_for, trusted_proxy_list, op, ep_vars, cl_vars>>

IpNext == CollectNext \/ ClientIpNext

SpecIp == IpInit /\ [][IpNext]_vars

----------------------------------------------------------------------------
(* What the claims speak of, stated on the header text without the iterator *)

InSomeRange(trusted, ip) == \E r \in trusted : ip \in r.network .. r.broadcast

IsText(value) == \A i \in 1 .. Len(value) : value[i] \notin OpaqueBytes

\* the n-th comma-separated token of s: the characters with n-1 commas before them
TokenOf(s, n) ==
    LET at == {i \in 1 .. Len(s) :
                  s[i] # "," /\ Cardinality({c \in 1 .. i : s[c] = ","}) = n - 1}
        first == CHOOSE i \in at : \A j \in at : i <= j
    IN IF at = {} THEN <<>> ELSE [k \in 1 .. Cardinality(at) |-> s[first + k - 1]]

TokenCount(s) == Cardinality({c \in 1 .. Len(s) : s[c] = ","}) + 1

\* the addresses a token denotes once surrounding whitespace is ignored
AddrsOf(tok) ==
    {a \in Addrs : \E i \in 1 .. Len(tok), j \in 1 .. Len(tok) :
        /\ i <= j
        /\ SubSeq(tok, i, j) = AddrText(a)
        /\ \A k \in (1 .. Len(tok)) \ (i .. j) : tok[k] \in Whitespace}

Parseable(tok) == AddrsOf(tok) # {}

\* the tokens of a header value, last token first, each with its distance from the end
TokensFromEnd(value) ==
    [n \in 1 .. TokenCount(value) |->
        [text |-> TokenOf(value, TokenCount(value) - n + 1), pos |-> n]]

IsParseableToken(t) == Parseable(t.text)

\* the hops a header value names, nearest the server first
HopsOfValue(value) ==
    LET kept == SelectSeq(TokensFromEnd(value), IsParseableToken)
    IN [n \in 1 .. Len(kept) |->
            [ip |-> CHOOSE a \in AddrsOf(kept[n].text) : TRUE, pos |-> kept[n].pos]]

\* the hops of a request: the peer (pos 0), then the header's; a header value
\* that is not text names none
ExpectedHops(peer, xff) ==
    (IF peer = None THEN <<>> ELSE <<[ip |-> peer[1].ip, pos |-> 0]>>)
        \o (IF xff = None \/ ~IsText(xff[1]) THEN <<>> ELSE HopsOfValue(xff[1]))

IpsOf(hops) == [n \in 1 .. Len(hops) |-> hops[n].ip]

ExpectedTrace(peer, xff) == IpsOf(ExpectedHops(peer, xff))

\* index of the first element of trace that lies in no trusted range; 0 if none
FirstUntrusted(trace, trusted) ==
    LET u == {i \in 1 .. Len(trace) : ~InSomeRange(trusted, trace[i])}
    IN IF u = {} THEN 0 ELSE CHOOSE i \in u : \A j \in u : i <= j

ClientIpReturned == op = "client_ip" /\ ip_result # None

CollectReturned == op = "collect" /\ ip_result # None

----------------------------------------------------------------------------
(* C1: client_ip returns Ok(x) with x the first element of the trace yielded *)
(* by iter_path_ips that lies in no range of the trusted list, and returns  *)
(* the error "Could not determine IP" exactly when there is no such element *)
(* (the trace is empty or every element is trusted).                        *)
C1_FirstUntrustedOrError ==
    ClientIpReturned =>
        LET trace == iter_path_ips(peer_addr, x_forwarded_for)
            k == FirstUntrusted(trace, trusted_proxy_list)
        IN /\ k # 0 => ip_result = Some(Ok(trace[k]))
           /\ k = 0 => ip_result = Some(Err(ClassifyError_new("Could not determine IP")))
           /\ ip_result = Some(Err(ClassifyError_new("Could not determine IP"))) <=>
                  (trace = <<>> \/ \A i \in 1 .. Len(trace) :
                                      InSomeRange(trusted_proxy_list, trace[i]))

\* client_ip returned an address after skipping a trusted one, with more trace left
C1_Witness ==
    /\ ClientIpReturned
    /\ IsOk(ip_result[1])
    /\ Len(path_ips) = 2
    /\ Len(iter_path_ips(peer_addr, x_forwarded_for)) = 3

(* C2: whenever client_ip returns Ok(ip), ip lies in no configured trusted  *)
(* range: a trusted (proxy) address is never returned as the client.        *)
C2_ResultNotTrusted ==
    (ClientIpReturned /\ IsOk(ip_result[1])) =>
        \A r \in trusted_proxy_list : ip_result[1][2] \notin r.network .. r.broadcast

\* client_ip returned an address while two ranges are configured and one was skipped
C2_Witness ==
    /\ ClientIpReturned
    /\ IsOk(ip_result[1])
    /\ Cardinality(trusted_proxy_list) = 2
    /\ Len(path_ips) >= 2
    /\ InSomeRange(trusted_proxy_list, path_ips[1])

\* the header values that differ from value in one token left of its last
\* `kept` tokens: a token replaced, the left-most token dropped, or a token
\* added on the left
LeftEdits(value, kept) ==
    LET n == TokenCount(value)
        toks == [i \in 1 .. n |-> TokenOf(value, i)]
    IN {join([toks EXCEPT ![i] = t]) : i \in 1 .. n - kept, t \in TokenTexts}
        \cup (IF n - kept >= 1 /\ n >= 2 THEN {join(Tail(toks))} ELSE {})
        \cup (IF n < MaxTokens THEN {join(<<t>> \o toks) : t \in TokenTexts} ELSE {})

\* the X-Forwarded-For headers that differ from xff only left of its last `kept` tokens
LeftEditedHeaders(xff, kept) ==
    IF xff = None
    THEN {Some(t) : t \in TokenTexts}
    ELSE {Some(v) : v \in LeftEdits(xff[1], kept)}
            \cup (IF kept = 0 THEN {None} ELSE {})

(* C3: client-IP resolution is a strict prefix-skip. Elements after the      *)
(* first untrusted element of the trace never influence the result: a        *)
(* request whose header differs only left of the token that gave the first   *)
(* untrusted element, and whose trace still agrees up to and including that  *)
(* element, resolves to the same address; and those later elements are never *)
(* inspected: the iterator is advanced exactly to the first untrusted        *)
(* element, by exactly that many calls of next.                              *)
C3_StrictPrefixSkip ==
    ClientIpReturned =>
        LET hops == ExpectedHops(peer_addr, x_forwarded_for)
            trace == IpsOf(hops)
            k == FirstUntrusted(trace, trusted_proxy_list)
        IN k # 0 =>
            /\ path_ips = SubSeq(trace, 1, k)
            /\ calls = k
            /\ state = XForwardedFor(hops[k].pos)
            /\ \A x2 \in LeftEditedHeaders(x_forwarded_for, hops[k].pos) :
                 LET t2 == ExpectedTrace(peer_addr, x2)
                 IN (Len(t2) >= k /\ SubSeq(t2, 1, k) = SubSeq(trace, 1, k))
                        => client_ip(peer_addr, x2, trusted_proxy_list) = ip_result[1]

\* client_ip returned the second element of a three-element trace whose last
\* element, the left-most header token, is untrusted as well
C3_Witness ==
    /\ ClientIpReturned
    /\ IsOk(ip_result[1])
    /\ Len(path_ips) = 2
    /\ LET trace == ExpectedTrace(peer_addr, x_forwarded_for)
       IN /\ Len(trace) = 3
          /\ ~InSomeRange(trusted_proxy_list, trace[3])
          /\ trace[3] # trace[2]

(* C4: the trace produced by iter_path_ips is the peer address first, if    *)
(* the connection has one, followed by the addresses parsed from the        *)
(* X-Forwarded-For tokens in reverse header order (last token first); with  *)
(* neither a peer address nor a header the trace is empty.                  *)
C4_TraceOrder ==
    op = "collect" =>
        LET trace == ExpectedTrace(peer_addr, x_forwarded_for)
        IN /\ Len(path_ips) <= Len(trace)
           /\ path_ips = SubSeq(trace, 1, Len(path_ips))
           /\ ip_result # None => path_ips = trace
           /\ (ip_result # None /\ peer_addr # None) => path_ips[1] = peer_addr[1].ip
           /\ (ip_result # None /\ peer_addr = None /\ x_forwarded_for = None)
                  => path_ips = <<>>

\* a collected trace of a peer and two different header addresses
C4_Witness ==
    /\ CollectReturned
    /\ peer_addr # None
    /\ Len(path_ips) = 3
    /\ path_ips[2] # path_ips[3]

\* the tokens of a header value that denote an address, last token first
ParseableFromEnd(value) ==
    LET kept == SelectSeq(TokensFromEnd(value), IsParseableToken)
    IN [n \in 1 .. Len(kept) |-> CHOOSE a \in AddrsOf(kept[n].text) : TRUE]

\* the items that came from the header: all but the peer's
HeaderPart(ips) == IF peer_addr = None \/ ips = <<>> THEN ips ELSE Tail(ips)

\* C5 as claimed: whatever the header value, the trace holds exactly its
\* parseable tokens, in reversed order, and the iteration ends without error
C5_AsClaimed ==
    (CollectReturned /\ x_forwarded_for # None) =>
        /\ IsOk(ip_result[1])
        /\ HeaderPart(path_ips) = ParseableFromEnd(x_forwarded_for[1])

(* C5: in an X-Forwarded-For value that is text (HeaderValue::to_str        *)
(* succeeds), a comma-separated token that does not parse as an address     *)
(* after trimming whitespace is skipped without error: at every point of    *)
(* the iteration the items yielded from the header are exactly the          *)
(* parseable ones among the tokens passed so far, in reversed header order, *)
(* so the iteration goes on past a malformed token and ends having yielded  *)
(* every parseable token. A value that is not text yields no item at all.   *)
C5_MalformedSkipped ==
    (op = "collect" /\ x_forwarded_for # None) =>
        LET value == x_forwarded_for[1]
            all == TokensFromEnd(value)
            passed == CASE state.tag = "XForwardedFor" -> state.idx
                        [] state.tag = "Done" -> Len(all)
                        [] OTHER -> 0
            kept == SelectSeq(SubSeq(all, 1, passed), IsParseableToken)
        IN /\ ip_result # None => (IsOk(ip_result[1]) /\ state = Done)
           /\ IsText(value) =>
                 /\ passed <= Len(all)
                 /\ HeaderPart(path_ips) =
                        [n \in 1 .. Len(kept) |-> CHOOSE a \in AddrsOf(kept[n].text) : TRUE]
           /\ ~IsText(value) => HeaderPart(path_ips) = <<>>

\* the iteration ended having yielded the address of a padded token that
\* stands left of a malformed token
C5_Witness ==
    /\ CollectReturned
    /\ x_forwarded_for # None
    /\ IsText(x_forwarded_for[1])
    /\ TokenCount(x_forwarded_for[1]) = 2
    /\ ~Parseable(TokenOf(x_forwarded_for[1], 2))
    /\ TokenOf(x_forwarded_for[1], 1) = <<" ", "2", " ">>
    /\ HeaderPart(path_ips) = <<2>>

----------------------------------------------------------------------------
(* Text of keys and query strings *)

Repeat(c, n) == [i \in 1 .. n |-> c]

FirefoxDownstream ==
    <<"f", "i", "r", "e", "f", "o", "x", "-",
      "d", "o", "w", "n", "s", "t", "r", "e", "a", "m", "-">>

testkey == <<"t", "e", "s", "t", "k", "e", "y">>

KeyEq == <<"k", "e", "y", "=">>

unknown == <<"u", "n", "k", "n", "o", "w", "n">>

\* the characters \w matches, of those that occur in the keys here: the ASCII
\* letters, digits and the underscore
WordChars ==
    {"a", "b", "c", "d", "e", "f", "g", "h", "i", "j", "k", "l", "m",
     "n", "o", "p", "q", "r", "s", "t", "u", "v", "w", "x", "y", "z",
     "A", "B", "C", "D", "E", "F", "G", "H", "I", "J", "K", "L", "M",
     "N", "O", "P", "Q", "R", "S", "T", "U", "V", "W", "X", "Y", "Z",
     "0", "1", "2", "3", "4", "5", "6", "7", "8", "9", "_"}

\* the longest suffix the pattern takes: \w{1,40} (country.rs:63)
DOWNSTREAM_KEY_MAX == 40

is_match_unanchored(key) ==
    LET p == Len(FirefoxDownstream)
    IN /\ Len(key) >= p + 1
       /\ SubSeq(key, 1, p) = FirefoxDownstream
       /\ key[p + 1] \in WordChars

\* DOWNSTREAM_KEY.is_match (country.rs:62-63, 84): ^firefox-downstream-\w{1,40}$
\* matches the whole key or nothing
is_match(key) ==
    LET p == Len(FirefoxDownstream)
    IN /\ Len(key) >= p + 1
       /\ Len(key) <= p + DOWNSTREAM_KEY_MAX
       /\ SubSeq(key, 1, p) = FirefoxDownstream
       /\ \A i \in p + 1 .. Len(key) : key[i] \in WordChars

\* the %XX escapes used here, with the byte each stands for
PercentCodes == [c \in {<<"2", "D">>, <<"5", "F">>} |-> IF c = <<"2", "D">> THEN "-" ELSE "_"]

\* form_urlencoded's decoding of a name or value: '+' is a space, %XX a byte,
\* a '%' that starts no escape stays
RECURSIVE percent_decode(_)
percent_decode(s) ==
    IF s = <<>> THEN <<>>
    ELSE IF s[1] = "%" /\ Len(s) >= 3 /\ <<s[2], s[3]>> \in DOMAIN PercentCodes
         THEN <<PercentCodes[<<s[2], s[3]>>]>> \o percent_decode(SubSeq(s, 4, Len(s)))
         ELSE <<IF s[1] = "+" THEN " " ELSE s[1]>> \o percent_decode(Tail(s))

\* one name=value piece of a query string: split at the first '='
query_pair(piece) ==
    IF \A i \in 1 .. Len(piece) : piece[i] # "="
    THEN <<percent_decode(piece), <<>>>>
    ELSE LET e == CHOOSE i \in 1 .. Len(piece) :
                      piece[i] = "=" /\ \A j \in 1 .. i - 1 : piece[j] # "="
         IN <<percent_decode(SubSeq(piece, 1, e - 1)),
              percent_decode(SubSeq(piece, e + 1, Len(piece)))>>

IsNonEmpty(piece) == piece # <<>>

IsKeyPair(pair) == pair[1] = <<"k", "e", "y">>

\* Query::<Params>::from_query (country.rs:65-68, 75): the pairs of the query
\* string, deserialized into Params: key once, other names ignored
from_query(query_string) ==
    LET pieces == SelectSeq(split_on(query_string, "&"), IsNonEmpty)
        pairs  == [i \in 1 .. Len(pieces) |-> query_pair(pieces[i])]
        keys   == SelectSeq(pairs, IsKeyPair)
    IN IF Len(keys) = 0 THEN Err("missing field key")
       ELSE IF Len(keys) > 1 THEN Err("duplicate field key")
       ELSE Ok([key |-> keys[1][2]])

----------------------------------------------------------------------------
(* The API-key file and the lazily built allow-list (country.rs:42-60) *)

JsonString(s) == <<"String", s>>
JsonNumber == <<"Number", <<>>>>
JsonArray(items) == <<"Array", items>>

\* the body of the Lazy: the strings of the file's JSON array; anything that
\* fails on the way leaves the set empty
KEYS_HASHSET_init(file) ==
    IF file = None THEN {}
    ELSE IF ~IsOk(file[1]) THEN {}
    ELSE IF file[1][2][1] # "Array" THEN {}
    ELSE LET array == file[1][2][2]
         IN {array[i][2] : i \in {j \in 1 .. Len(array) : array[j][1] = "String"}}

KEYS_HASHSET_force_empty_first == IF KEYS_HASHSET = None THEN {} ELSE KEYS_HASHSET[1]

\* Lazy::force: the set, built on first use
KEYS_HASHSET_force == IF KEYS_HASHSET = None THEN KEYS_HASHSET_init(api_keys_file)
                      ELSE KEYS_HASHSET[1]

\* KEYS_HASHSET.lock() (country.rs:86) fails only on a poisoned mutex; the
\* lock is held over `contains` alone, which cannot panic
lock_poisoned == FALSE

----------------------------------------------------------------------------
(* Responses *)

HttpResponse(status, body, cache_control) ==
    [status |-> status, body |-> body, cache_control |-> cache_control]

Unauthorized(text) == HttpResponse(401, <<"text", text>>, None)

NoCache == Some("max-age=0, no-cache, no-store, must-revalidate")

\* COUNTRY_NOT_FOUND_RESPONSE (country.rs:32-40)
COUNTRY_NOT_FOUND_RESPONSE ==
    [code |-> 404, message |-> "Not found",
     errors |-> <<[domain |-> "geolocation", reason |-> "notFound",
                   message |-> "Not found"]>>]

\* ResponseError::error_response (errors.rs:34-38)
error_response(err) == HttpResponse(500, <<"json", err>>, None)

\* what a `return` of the handler leaves: the response, and that it returned
Returned(response) == [returned |-> TRUE, response |-> response]
FellThrough(response) == [returned |-> FALSE, response |-> response]

bad_query_400 == Returned(HttpResponse(400, <<"text", "Missing key">>, None))

\* country.rs:98-100  the query string gave no Params
deny_bad_query == Returned(Unauthorized("Wrong key"))

deny_wrong_key_no_return == FellThrough(Unauthorized("Wrong key"))

\* country.rs:88-90  the key is neither reserved nor in the allow-list
deny_wrong_key == Returned(Unauthorized("Wrong key"))

\* country.rs:92-94  the allow-list could not be locked
deny_poisoned == Returned(Unauthorized("Wrong key"))

----------------------------------------------------------------------------
(* The metrics sink *)

\* a counter with one tag, as the sink receives it; `by` is the request whose
\* handling sent it (no part of the line)
Counter(name, tag, value, by) == [name |-> name, tag |-> tag, value |-> value, by |-> by]

\* the error handler get_client gives the client (metrics.rs:43-45): a line
\* in the application log
error_handler(metric) == [msg |-> "Could not send metric", metric |-> metric]

\* MetricBuilder::send, for each of the metrics `sent` (metrics.rs:40-45,
\* geoip.rs:81-100, country.rs:77-81): the sink receives the metric, or fails
\* and the error handler is called; send returns nothing either way
emit(sent) ==
    /\ metrics_log' = IF sink_fails THEN metrics_log ELSE metrics_log \o sent
    /\ app_log' = IF sink_fails
                  THEN app_log \o [n \in 1 .. Len(sent) |-> error_handler(sent[n])]
                  ELSE app_log

----------------------------------------------------------------------------
(* The geolocation database (geoip.rs) *)

Country(iso_code, names) == [iso_code |-> iso_code, names |-> names]

\* the names of a country by language (BTreeMap<&str, &str>): one with an
\* English name, and one that has a German name only
English(name) == [en |-> name]
German(name) == [de |-> name]
CountryInfo(country) == [country |-> country]

US == <<"U", "S">>
DE == <<"D", "E">>

\* a database like the GeoLite2 one the tests use: a country for address 0,
\* nothing for address 1, a record without country for 2, damaged data at 3
GeoLite2 ==
    [a \in Addrs |->
        CASE a = 0 -> Ok(Some(CountryInfo(Some(Country(Some(US), Some(English("United States")))))))
          [] a = 1 -> Err(<<"AddressNotFoundError", "Address not found in database">>)
          [] a = 2 -> Ok(Some(CountryInfo(None)))
          [] OTHER -> Err(<<"InvalidDatabaseError", "bad data">>)]

\* a database with the other outcomes of a lookup; the country at address 1
\* has no name in English
Sparse ==
    [a \in Addrs |->
        CASE a = 0 -> Ok(None)
          [] a = 1 -> Ok(Some(CountryInfo(Some(Country(None, Some(German("Nirgendwo")))))))
          [] a = 2 -> Ok(Some(CountryInfo(Some(Country(None, Some(English("Nowhere")))))))
          [] OTHER -> Err(<<"IoError", "read failed">>)]

\* a database whose lookups fail in the remaining ways
Damaged ==
    [a \in Addrs |->
        CASE a = 0 -> Err(<<"AddressNotFoundError", "Address not found in database">>)
          [] a = 1 -> Err(<<"MapError", "mmap failed">>)
          [] a = 2 -> Err(<<"DecodingError", "bad record">>)
          [] OTHER -> Ok(Some(CountryInfo(Some(Country(Some(DE), None)))))]

\* From<MaxMindDBError> for ClassifyError (errors.rs:40-60): "{kind}: {msg}"
ClassifyError_from_maxminddb(error) == [message |-> <<error[1], error[2]>>]

\* the ISO code the `location` counter is tagged with (geoip.rs:83-89)
location_tag(country_info) ==
    IF country_info = None THEN unknown
    ELSE IF country_info[1].country = None THEN unknown
    ELSE IF country_info[1].country[1].iso_code = None THEN unknown
    ELSE country_info[1].country[1].iso_code[1]

\* GeoIpActorBuilder::build (geoip.rs:57-68); a path stands for what opening
\* it gives: the database, or the error of Reader::open
build(path) ==
    IF path = None THEN Ok([reader |-> None])
    ELSE IF IsOk(path[1]) THEN Ok([reader |-> Some(path[1][2])])
    ELSE Err(ClassifyError_from_maxminddb(path[1][2]))

locate_errors_as_not_found(rdr, ip, by) ==
    IF rdr = None
    THEN [result |-> Err(ClassifyError_new("No geoip database available")), sent |-> <<>>]
    ELSE LET found == rdr[1][ip]
         IN IF IsOk(found)
            THEN [result |-> Ok(found[2]),
                  sent |-> <<Counter("location", "country", location_tag(found[2]), by)>>]
            ELSE [result |-> Ok(None),
                  sent |-> <<Counter("location", "country", unknown, by)>>]

locate_unloaded_as_not_found(rdr, ip, by) ==
    IF rdr = None
    THEN [result |-> Ok(None), sent |-> <<Counter("location", "country", unknown, by)>>]
    ELSE LET found == rdr[1][ip]
         IN IF IsOk(found)
            THEN [result |-> Ok(found[2]),
                  sent |-> <<Counter("location", "country", location_tag(found[2]), by)>>]
            ELSE IF found[2][1] = "AddressNotFoundError"
            THEN [result |-> Ok(None),
                  sent |-> <<Counter("location", "country", unknown, by)>>]
            ELSE [result |-> Err(ClassifyError_from_maxminddb(found[2])), sent |-> <<>>]

locate_silent_not_found(rdr, ip, by) ==
    IF rdr = None
    THEN [result |-> Err(ClassifyError_new("No geoip database available")), sent |-> <<>>]
    ELSE LET found == rdr[1][ip]
         IN IF IsOk(found)
            THEN [result |-> Ok(found[2]),
                  sent |-> <<Counter("location", "country", location_tag(found[2]), by)>>]
            ELSE IF found[2][1] = "AddressNotFoundError"
            THEN [result |-> Ok(None), sent |-> <<>>]
            ELSE [result |-> Err(ClassifyError_from_maxminddb(found[2])), sent |-> <<>>]

locate_needs_sink(rdr, ip, by) ==
    IF rdr = None \/ sink_fails
    THEN [result |-> Err(ClassifyError_new("No geoip database available")), sent |-> <<>>]
    ELSE LET found == rdr[1][ip]
         IN IF IsOk(found)
            THEN [result |-> Ok(found[2]),
                  sent |-> <<Counter("location", "country", location_tag(found[2]), by)>>]
            ELSE IF found[2][1] = "AddressNotFoundError"
            THEN [result |-> Ok(None),
                  sent |-> <<Counter("location", "country", unknown, by)>>]
            ELSE [result |-> Err(ClassifyError_from_maxminddb(found[2])), sent |-> <<>>]

\* GeoIpActor::locate (geoip.rs:76-104): the result, and the counters sent
locate(rdr, ip, by) ==
    IF rdr = None
    THEN [result |-> Err(ClassifyError_new("No geoip database available")), sent |-> <<>>]
    ELSE LET found == rdr[1][ip]
         IN IF IsOk(found)
            THEN [result |-> Ok(found[2]),
                  sent |-> <<Counter("location", "country", location_tag(found[2]), by)>>]
            ELSE IF found[2][1] = "AddressNotFoundError"
            THEN [result |-> Ok(None),
                  sent |-> <<Counter("location", "country", unknown, by)>>]
            ELSE [result |-> Err(ClassifyError_from_maxminddb(found[2])), sent |-> <<>>]

----------------------------------------------------------------------------
(* get_country (country.rs:70-137), in three steps: the query string is     *)
(* parsed and the api_key counter sent; the key is checked; the client is   *)
(* located and the response built. Requests are handled concurrently, so    *)
(* the steps of different requests interleave.                              *)

HttpRequest(query_string, peer, xff) ==
    [query_string |-> query_string, peer_addr |-> peer, x_forwarded_for |-> xff]

\* a request in the hands of get_country: where the handler stands and what
\* it has computed so far
Handling(r, pc, params, response) ==
    [query_string |-> r.query_string, peer_addr |-> r.peer_addr,
     x_forwarded_for |-> r.x_forwarded_for,
     pc |-> pc, params |-> params, client_ip |-> None, location |-> None,
     response |-> response]

authorize_pattern_only(key, keys, poisoned) ==
    IF is_match(key) THEN None ELSE Some(deny_wrong_key)

\* country.rs:84-96: None if the key passes, else the denial
authorize(key, keys, poisoned) ==
    IF is_match(key) THEN None
    ELSE IF poisoned THEN Some(deny_poisoned)
    ELSE IF key \notin keys THEN Some(deny_wrong_key)
    ELSE None

api_key_counter_none(key, by) == <<>>

\* country.rs:77-81: the counter sent for a key that parsed
api_key_counter(key, by) == <<Counter("country", "api_key", key, by)>>

invalid_key == <<"i", "n", "v", "a", "l", "i", "d", "-", "k", "e", "y">>

no_key_counter_invalid_key(by) == <<Counter("country", "api_key", invalid_key, by)>>

\* country.rs:98-100: what is sent when the query string gave no Params: nothing
no_key_counter(by) == <<>>

\* x["en"] (country.rs:131): Index of a BTreeMap panics on a key it lacks
index(map, key) == IF key \in DOMAIN map THEN Some(map[key]) ELSE None

\* what is left of a handler whose thread panicked: no response is written
Panic == [panicked |-> "key not found"]

country_response_always_200(location) ==
    LET country_opt == IF location = None THEN None ELSE location[1].country
    IN HttpResponse(200,
           <<"json",
             [country_code |-> IF country_opt = None \/ country_opt[1].iso_code = None
                               THEN <<>> ELSE country_opt[1].iso_code[1],
              country_name |-> IF country_opt = None \/ country_opt[1].names = None
                               THEN ""
                               ELSE IF index(country_opt[1].names[1], "en") = None
                               THEN "" ELSE index(country_opt[1].names[1], "en")[1]]>>,
           NoCache)

\* country.rs:107-135: the response for a lookup that did not fail
country_response(location) ==
    LET country_opt == IF location = None THEN None ELSE location[1].country
    IN IF country_opt = None
       THEN HttpResponse(404, <<"json", COUNTRY_NOT_FOUND_RESPONSE>>, None)
       ELSE LET country == country_opt[1]
                name == IF country.names = None THEN Some("")
                        ELSE index(country.names[1], "en")
            IN IF name = None THEN Panic
               ELSE HttpResponse(200,
                        <<"json",
                          [country_code |-> IF country.iso_code = None THEN <<>>
                                            ELSE country.iso_code[1],
                           country_name |-> name[1]]>>,
                        NoCache)

\* country.rs:75-81, 98-100: the handler is entered with request r
get_country_parse(r) ==
    LET i == Len(requests) + 1
        query == from_query(r.query_string)
    IN /\ IF IsOk(query)
          THEN /\ emit(api_key_counter(query[2].key, i))
               /\ requests' = Append(requests, Handling(r, "check_key", Some(query), None))
          ELSE /\ emit(no_key_counter(i))
               /\ requests' = Append(requests,
                      IF deny_bad_query.returned
                      THEN Handling(r, "returned", Some(query), Some(deny_bad_query.response))
                      ELSE Handling(r, "locate", Some(query), None))
       /\ UNCHANGED <<sv_quiet, ip_vars, trusted_proxy_list, api_keys_file, KEYS_HASHSET, reader, cl_vars>>

\* country.rs:83-96: the key of request i is checked
get_country_authorize(i) ==
    /\ requests[i].pc = "check_key"
    /\ LET key == requests[i].params[1][2].key
           keys == KEYS_HASHSET_force
           denial == authorize(key, keys, lock_poisoned)
       IN /\ KEYS_HASHSET' = IF is_match(key) THEN KEYS_HASHSET ELSE Some(keys)
          /\ requests' =
                [requests EXCEPT ![i] =
                    IF denial # None /\ denial[1].returned
                    THEN [@ EXCEPT !.pc = "returned", !.response = Some(denial[1].response)]
                    ELSE [@ EXCEPT !.pc = "locate"]]
    /\ UNCHANGED <<sv_vars, ip_vars, trusted_proxy_list, api_keys_file, reader, metrics_log, cl_vars>>

\* country.rs:103-136: the client of request i is resolved and located; a
\* panic while the body is built unwinds the handler
get_country_locate(i) ==
    /\ requests[i].pc = "locate"
    /\ LET ip == client_ip(requests[i].peer_addr, requests[i].x_forwarded_for,
                           trusted_proxy_list)
       IN IF ~IsOk(ip)
          THEN /\ requests' = [requests EXCEPT ![i] =
                      [@ EXCEPT !.pc = "returned", !.client_ip = Some(ip),
                                !.response = Some(error_response(ip[2]))]]
               /\ emit(<<>>)
          ELSE LET found == locate(reader, ip[2], i)
                   response == IF IsOk(found.result)
                               THEN country_response(found.result[2])
                               ELSE error_response(ClassifyError_from_source(
                                        "Future failure", found.result[2]))
               IN /\ emit(found.sent)
                  /\ requests' = [requests EXCEPT ![i] =
                        IF response = Panic
                        THEN [@ EXCEPT !.pc = "panicked", !.client_ip = Some(ip),
                                       !.location = Some(found.result)]
                        ELSE [@ EXCEPT !.pc = "returned", !.client_ip = Some(ip),
                                       !.location = Some(found.result),
                                       !.response = Some(response)]]
    /\ UNCHANGED <<sv_quiet, ip_vars, trusted_proxy_list, api_keys_file, KEYS_HASHSET, reader, cl_vars>>

----------------------------------------------------------------------------
(* Configurations and requests the server is run on *)

BadDownstreamKey == FirefoxDownstream \o <<"a", "-", "b">>

ApiKeyFiles ==
    {None,
     Some(Ok(JsonArray(<<JsonString(testkey)>>))),
     Some(Ok(JsonArray(<<JsonString(testkey), JsonNumber, JsonString(BadDownstreamKey)>>)))}

ServerTrustedLists == {{}, {IpNet(0, 0)}}

\* the database paths an actor is built with: none, a file that opens, a
\* file that does not
DbPaths ==
    {None, Some(Err(<<"IoError", "No such file or directory">>))}
        \cup {Some(Ok(db)) : db \in {GeoLite2, Sparse, Damaged}}

\* the readers of the actors that could be built
Readers == {build(path)[2].reader : path \in {p \in DbPaths : IsOk(build(p))}}

\* keys a caller may send
SuppliedKeys ==
    {testkey,
     <<>>,
     FirefoxDownstream,
     FirefoxDownstream \o <<"a", "_", "1">>,
     BadDownstreamKey,
     FirefoxDownstream \o <<"a", "%", "5", "F", "b">>,
     FirefoxDownstream \o Repeat("a", DOWNSTREAM_KEY_MAX),
     FirefoxDownstream \o Repeat("a", DOWNSTREAM_KEY_MAX + 1),
     <<"x">> \o FirefoxDownstream \o <<"a">>}

\* query strings: none, key=<key>, and ones with no, a bare, a second or a
\* repeated parameter
QueryStrings ==
    {<<>>}
        \cup {KeyEq \o k : k \in SuppliedKeys}
        \cup {<<"k", "e", "y">>,
              <<"x", "=", "1">>,
              <<"x", "=", "1", "&">> \o KeyEq \o testkey,
              KeyEq \o testkey \o <<"&">> \o KeyEq \o testkey}

\* where a request comes from: no peer address here, as behind a test
\* service, or a peer with a header
Origins ==
    {<<None, Some(AddrText(a))>> : a \in Addrs}
        \cup {<<None, None>>,
              <<Some(SocketAddr(0, 443)), Some(<<"3", ",", "2">>)>>}

KeyedRequests == {HttpRequest(q, o[1], o[2]) : q \in QueryStrings, o \in Origins}

\* the requests of the endpoint's test, one more origin and a key with a
\* percent-encoded underscore
SampleRequests ==
    {HttpRequest(<<>>, None, Some(AddrText(0))),
     HttpRequest(KeyEq \o testkey, None, Some(AddrText(0))),
     HttpRequest(KeyEq \o testkey, None, Some(AddrText(1))),
     HttpRequest(KeyEq \o FirefoxDownstream \o <<"a", "_", "1">>, None, Some(AddrText(0))),
     HttpRequest(KeyEq \o BadDownstreamKey, None, Some(AddrText(0))),
     HttpRequest(KeyEq \o FirefoxDownstream \o <<"a", "%", "5", "F", "b">>,
                 None, Some(AddrText(0)))}

ServerInit ==
    /\ api_keys_file \in ApiKeyFiles
    /\ KEYS_HASHSET = None
    /\ reader \in Readers
    /\ trusted_proxy_list \in ServerTrustedLists
    /\ requests = <<>>
    /\ metrics_log = <<>>
    /\ peer_addr = None
    /\ x_forwarded_for = None
    /\ op = "none"
    /\ state = PathIpsIter_new
    /\ path_ips = <<>>
    /\ calls = 0
    /\ ip_result = None
    /\ lookups = <<>>
    /\ classify_requests = <<>>
    /\ SvInit

Authorize == \E i \in 1 .. Len(requests) : get_country_authorize(i)

Locate == \E i \in 1 .. Len(requests) : get_country_locate(i)

\* the server: requests are handed to get_country one after another and
\* handled concurrently
Receive == \E r \in SampleRequests : Len(requests) < MaxRequests /\ get_country_parse(r)

Next == Receive \/ Authorize \/ Locate

Spec == ServerInit /\ [][Next]_vars

\* one request to the keyed endpoint, of any query string and origin
ReceiveOne == \E r \in KeyedRequests : requests = <<>> /\ get_country_parse(r)

NextKey == ReceiveOne \/ Authorize \/ Locate

SpecKey == ServerInit /\ [][NextKey]_vars

----------------------------------------------------------------------------
(* classify_client (classify.rs:45-81), in three steps: the client IP is    *)
(* resolved and CountryForIp sent to the GeoIpActor; the actor handles the  *)
(* message (geoip.rs:107-113); the reply is turned into the response.       *)
(* Requests to classify_client are numbered -1, -2, ... in the counters     *)
(* they cause, requests to get_country 1, 2, ...                            *)

\* the values Utc::now() may give (classify.rs:39)
Instants == {"T0", "T1"}

JsonNull == <<"Null", <<>>>>

country_iso_code_name(country_info) ==
    IF country_info = None THEN JsonNull
    ELSE IF country_info[1].country = None THEN JsonNull
    ELSE IF country_info[1].country[1].names = None THEN JsonNull
    ELSE JsonString(country_info[1].country[1].names[1])

\* country_iso_code (classify.rs:21-34): the country field as serialized
country_iso_code(country_info) ==
    IF country_info = None THEN JsonNull
    ELSE IF country_info[1].country = None THEN JsonNull
    ELSE IF country_info[1].country[1].iso_code = None THEN JsonNull
    ELSE JsonString(country_info[1].country[1].iso_code[1])

\* ClientClassification (classify.rs:13-19, 36-43), serialized
ClientClassification(request_time, country) ==
    [request_time |-> request_time, country |-> country_iso_code(country)]

\* Display for ClassifyError (errors.rs:27-32): the Debug form
fmt(err) == <<"ClassifyError">> \o err.message

classify_client_ip_default(r, trusted) ==
    LET ip == client_ip(r.peer_addr, r.x_forwarded_for, trusted)
    IN IF IsOk(ip) THEN ip ELSE Ok(0)

classify_client_ip_keyed(r, trusted) ==
    IF IsOk(from_query(r.query_string))
    THEN client_ip(r.peer_addr, r.x_forwarded_for, trusted)
    ELSE Err(ClassifyError_new("Wrong key"))

\* classify.rs:50-55: the handler begins with req.client_ip()
classify_client_ip(r, trusted) == client_ip(r.peer_addr, r.x_forwarded_for, trusted)

classify_response_cached(country, now) ==
    IF IsOk(country)
    THEN HttpResponse(200, <<"json", ClientClassification(now, country[2])>>, None)
    ELSE HttpResponse(500, <<"json", [error |-> fmt(country[2])]>>, None)

classify_response_hides_failure(country, now) ==
    IF IsOk(country)
    THEN HttpResponse(200, <<"json", ClientClassification(now, country[2])>>, NoCache)
    ELSE HttpResponse(200, <<"json", ClientClassification(now, None)>>, NoCache)

classify_response_plain_500(country, now) ==
    IF IsOk(country)
    THEN HttpResponse(200, <<"json", ClientClassification(now, country[2])>>, NoCache)
    ELSE HttpResponse(500, <<"json", [error |-> fmt(country[2])]>>, None)

\* classify.rs:61-78: the response for the actor's reply; the header is set
\* on the builder before the reply is looked at
classify_response(country, now) ==
    IF IsOk(country)
    THEN HttpResponse(200, <<"json", ClientClassification(now, country[2])>>, NoCache)
    ELSE HttpResponse(500, <<"json", [error |-> fmt(country[2])]>>, NoCache)

\* a request in the hands of classify_client
Classifying(r, pc, ip, response) ==
    [query_string |-> r.query_string, peer_addr |-> r.peer_addr,
     x_forwarded_for |-> r.x_forwarded_for,
     pc |-> pc, client_ip |-> ip, location |-> None, response |-> response]

\* classify.rs:50-60: the handler is entered with request r
classify_client_begin(r) ==
    LET ip == classify_client_ip(r, trusted_proxy_list)
    IN /\ classify_requests' = Append(classify_requests,
              IF IsOk(ip)
              THEN Classifying(r, "sent", Some(ip), None)
              ELSE Classifying(r, "returned", Some(ip), Some(error_response(ip[2]))))
       /\ UNCHANGED <<sv_vars, ip_vars, trusted_proxy_list, ep_vars, lookups>>

\* geoip.rs:107-113: the actor takes the oldest CountryForIp of its mailbox
GeoIpActor_handle(i) ==
    /\ classify_requests[i].pc = "sent"
    /\ \A j \in 1 .. i - 1 : classify_requests[j].pc # "sent"
    /\ LET found == locate(reader, classify_requests[i].client_ip[1][2], 0 - i)
       IN /\ emit(found.sent)
          /\ classify_requests' = [classify_requests EXCEPT ![i] =
                [@ EXCEPT !.pc = "replied", !.location = Some(found.result)]]
    /\ UNCHANGED <<sv_quiet, ip_vars, trusted_proxy_list, api_keys_file, KEYS_HASHSET, reader,
                   requests, lookups>>

\* classify.rs:61-78: the reply for request i has come
classify_client_respond(i) ==
    /\ classify_requests[i].pc = "replied"
    /\ \E now \in Instants :
          classify_requests' = [classify_requests EXCEPT ![i] =
              [@ EXCEPT !.pc = "returned",
                        !.response = Some(classify_response(
                                          classify_requests[i].location[1], now))]]
    /\ UNCHANGED <<sv_vars, ip_vars, trusted_proxy_list, ep_vars, lookups>>

\* requests to the classification endpoint: with and without a key, from
\* clients the database knows, does not know, and that cannot be determined
ClassifyRequests ==
    {HttpRequest(q, o[1], o[2]) :
        q \in {<<>>, KeyEq \o testkey},
        o \in {<<None, Some(AddrText(0))>>, <<None, Some(AddrText(1))>>, <<None, None>>}}
        \cup {HttpRequest(KeyEq \o BadDownstreamKey, Some(SocketAddr(0, 443)), Some(<<"3", ",", "2">>))}

Handle == \E i \in 1 .. Len(classify_requests) : GeoIpActor_handle(i)

Respond == \E i \in 1 .. Len(classify_requests) : classify_client_respond(i)

ClassifyReceive ==
    \E r \in ClassifyRequests :
        Len(classify_requests) < MaxRequests /\ classify_client_begin(r)

ClassifyNext == ClassifyReceive \/ Handle \/ Respond

\* the classification endpoint, requests handled concurrently
SpecClassify == ServerInit /\ [][ClassifyNext]_vars

\* one request to the classification endpoint
ClassifyReceiveOne ==
    \E r \in ClassifyRequests : classify_requests = <<>> /\ classify_client_begin(r)

EndpointsNext == ReceiveOne \/ Authorize \/ Locate \/ ClassifyReceiveOne \/ Handle \/ Respond

\* both endpoints of one server, a request to each
SpecEndpoints == ServerInit /\ [][EndpointsNext]_vars

----------------------------------------------------------------------------
(* GeoIpActor::locate called directly, as its tests call it (geoip.rs:138-171) *)

\* most locate calls made on one actor
MaxLookups == 3

GeoInit ==
    /\ reader \in Readers
    /\ lookups = <<>>
    /\ metrics_log = <<>>
    /\ trusted_proxy_list = {}
    /\ api_keys_file = None
    /\ KEYS_HASHSET = None
    /\ requests = <<>>
    /\ classify_requests = <<>>
    /\ SvInit
    /\ peer_addr = None
    /\ x_forwarded_for = None
    /\ op = "none"
    /\ state = PathIpsIter_new
    /\ path_ips = <<>>
    /\ calls = 0
    /\ ip_result = None

\* geoip.locate(ip): one more call; `by` numbers the calls
geoip_locate(ip) ==
    /\ Len(lookups) < MaxLookups
    /\ LET found == locate(reader, ip, Len(lookups) + 1)
       IN /\ lookups' = Append(lookups, [ip |-> ip, result |-> found.result])
          /\ emit(found.sent)
    /\ UNCHANGED <<sv_quiet, ip_vars, trusted_proxy_list, api_keys_file, KEYS_HASHSET, reader,
                   requests, classify_requests>>

GeoNext == \E ip \in Addrs : geoip_locate(ip)

SpecGeo == GeoInit /\ [][GeoNext]_vars

----------------------------------------------------------------------------
(* What the claims about the keyed endpoint speak of *)

\* characters that are neither a letter, a digit nor an underscore
OtherChars == {"-", "%", "=", "&", "+", " ", ",", "."}

HasDownstreamPrefix(key) ==
    /\ Len(key) >= Len(FirefoxDownstream)
    /\ \A i \in 1 .. Len(FirefoxDownstream) : key[i] = FirefoxDownstream[i]

\* the reserved pattern: the prefix, then 1 to 40 letters, digits or
\* underscores, and nothing else
Reserved(key) ==
    /\ HasDownstreamPrefix(key)
    /\ Len(key) - Len(FirefoxDownstream) \in 1 .. 40
    /\ \A i \in Len(FirefoxDownstream) + 1 .. Len(key) : key[i] \notin OtherChars

\* the allow-list the key file holds: the strings of its array
AllowList ==
    IF api_keys_file = None THEN {}
    ELSE {k \in SuppliedKeys :
            \E n \in 1 .. Len(api_keys_file[1][2][2]) :
                api_keys_file[1][2][2][n] = JsonString(k)}

KeyParsed(r) == r.params # None /\ IsOk(r.params[1])

KeyOf(r) == r.params[1][2].key

\* the key check is over for r
Checked(r) == KeyParsed(r) /\ r.pc \in {"locate", "returned"}

WasDenied(r) == r.pc = "returned" /\ r.client_ip = None

Answered(r) == r.response # None

WrongKey401 ==
    [status |-> 401, body |-> <<"text", "Wrong key">>, cache_control |-> None]

IsCountryCounter(m) == m.name = "country"

IsLocationCounter(m) == m.name = "location"

(* C6: a key matching the reserved pattern (the prefix firefox-downstream-   *)
(* followed by 1 to 40 alphanumeric/underscore characters and nothing else)  *)
(* is authorized without the allow-list being consulted, even when the       *)
(* allow-list is empty; a key with that prefix whose suffix is empty, longer *)
(* than 40 characters or holds another character does not match: for it the  *)
(* allow-list is consulted and decides.                                      *)
C6_ReservedPattern ==
    \A i \in 1 .. Len(requests) :
        LET r == requests[i]
        IN Checked(r) =>
            /\ Reserved(KeyOf(r)) =>
                  /\ KEYS_HASHSET = None
                  /\ ~WasDenied(r)
                  /\ Answered(r) => r.response[1].status # 401
            /\ (HasDownstreamPrefix(KeyOf(r)) /\ ~Reserved(KeyOf(r))) =>
                  /\ KEYS_HASHSET # None
                  /\ WasDenied(r) <=> KeyOf(r) \notin AllowList

\* a key with a suffix of 40 characters got an answer from the lookup while
\* the allow-list is empty
C6_Witness ==
    /\ Len(requests) = 1
    /\ Checked(requests[1])
    /\ KeyOf(requests[1]) = FirefoxDownstream \o Repeat("a", 40)
    /\ AllowList = {}
    /\ Answered(requests[1])
    /\ requests[1].response[1].status = 200

(* C7: for every supplied key that does not match the reserved pattern,      *)
(* get_country authorizes the request if and only if the key is a member of  *)
(* the API-key allow-list; a non-member is answered 401.                     *)
C7_AllowListDecides ==
    \A i \in 1 .. Len(requests) :
        LET r == requests[i]
        IN (Checked(r) /\ ~Reserved(KeyOf(r))) =>
            /\ r.pc = "locate" => KeyOf(r) \in AllowList
            /\ Answered(r) =>
                  (r.response[1].status = 401 <=> KeyOf(r) \notin AllowList)
            /\ KeyOf(r) \notin AllowList => (Answered(r) /\ r.response[1].status = 401)

\* an allow-listed key that has the prefix but not the pattern was located
C7_Witness ==
    /\ Len(requests) = 1
    /\ Checked(requests[1])
    /\ KeyOf(requests[1]) = BadDownstreamKey
    /\ KeyOf(requests[1]) \in AllowList
    /\ requests[1].location # None

(* C8: every denial on the keyed endpoint (key parameter absent, query       *)
(* string unparseable, or key failing both the pattern and the allow-list)   *)
(* produces the same response, status 401 with body "Wrong key": a missing   *)
(* key and a wrong key are answered alike.                                   *)
C8_DenialsAlike ==
    \A i \in 1 .. Len(requests) :
        LET r == requests[i]
            no_key == r.params # None /\ ~IsOk(r.params[1])
            wrong_key == Checked(r) /\ ~Reserved(KeyOf(r)) /\ KeyOf(r) \notin AllowList
        IN (no_key \/ wrong_key) => (Answered(r) /\ r.response[1] = WrongKey401)

\* a request whose query string repeats the key parameter was answered
C8_Witness ==
    /\ Len(requests) = 1
    /\ requests[1].query_string = KeyEq \o testkey \o <<"&">> \o KeyEq \o testkey
    /\ testkey \in AllowList
    /\ Answered(requests[1])

(* C9: the authorization gate strictly precedes client-IP resolution and     *)
(* geolocation: a request that is denied ends at the gate, so no client IP   *)
(* is resolved and no database lookup made for it and no `location` counter  *)
(* is sent for it; whatever is resolved, looked up or counted belongs to a   *)
(* request that passed the gate.                                             *)
C9_GateFirst ==
    \A i \in 1 .. Len(requests) :
        LET r == requests[i]
            passed == KeyParsed(r) /\ (Reserved(KeyOf(r)) \/ KeyOf(r) \in AllowList)
            counted == \E n \in 1 .. Len(metrics_log) :
                          IsLocationCounter(metrics_log[n]) /\ metrics_log[n].by = i
        IN /\ (Answered(r) /\ r.response[1].status = 401) =>
                  (r.client_ip = None /\ r.location = None /\ ~counted)
           /\ (r.client_ip # None \/ r.location # None \/ counted) =>
                  (passed /\ r.pc \in {"returned", "panicked"})
           /\ ~passed => (r.client_ip = None /\ r.location = None /\ ~counted)

\* of two requests the first was denied and the second located and counted
C9_Witness ==
    /\ Len(requests) = 2
    /\ Answered(requests[1])
    /\ requests[1].response[1].status = 401
    /\ KeyParsed(requests[1])
    /\ requests[2].location # None
    /\ \E n \in 1 .. Len(metrics_log) :
          IsLocationCounter(metrics_log[n]) /\ metrics_log[n].by = 2

(* C10: every keyed-endpoint request whose key parameter parses sends        *)
(* exactly one country counter tagged api_key=<the supplied key>, the value *)
(* of the key parameter; it is sent before the key is checked and whether    *)
(* the request is then authorized or denied; the counters reach the sink in  *)
(* request order.                                                            *)
C10_ApiKeyCounters ==
    LET parsed == SelectSeq([i \in 1 .. Len(requests) |->
                                 [i |-> i, r |-> requests[i]]],
                            LAMBDA e : KeyParsed(e.r))
    IN SelectSeq(metrics_log, IsCountryCounter) =
          [n \in 1 .. Len(parsed) |->
              [name |-> "country", tag |-> "api_key",
               value |-> KeyOf(parsed[n].r), by |-> parsed[n].i]]

\* two requests with different keys, the first still unchecked when the second
\* has its answer, and a counter for each in the sink
C10_Witness ==
    /\ Len(requests) = 2
    /\ KeyParsed(requests[1]) /\ KeyParsed(requests[2])
    /\ KeyOf(requests[1]) # KeyOf(requests[2])
    /\ requests[1].pc = "check_key"
    /\ Answered(requests[2]) /\ requests[2].response[1].status = 200
    /\ Len(SelectSeq(metrics_log, IsCountryCounter)) = 2

\* the counters request i sent
SentBy(i) == SelectSeq(metrics_log, LAMBDA m : m.by = i)

(* C11, as claimed: every request the keyed endpoint evaluates sends one     *)
(* counter, and one whose key parameter is missing or unparseable sends it   *)
(* tagged api_key=invalid-key.                                               *)
C11_AsClaimed ==
    \A i \in 1 .. Len(requests) :
        LET r == requests[i]
            mine == SelectSeq(SentBy(i), IsCountryCounter)
        IN /\ Len(mine) = 1
           /\ ~KeyParsed(r) => mine[1].value = invalid_key
           /\ KeyParsed(r) => mine[1].value = KeyOf(r)

(* C11: every evaluation of a key that parsed sends one counter tagged       *)
(* api_key=<the key>, whether the key is then authorized or denied; a        *)
(* request denied because the key parameter is missing or unparseable sends  *)
(* no counter at all, and nothing is ever tagged api_key=invalid-key.        *)
C11_CounterOnlyForParsedKey ==
    \A i \in 1 .. Len(requests) :
        LET r == requests[i]
            mine == SelectSeq(SentBy(i), IsCountryCounter)
        IN /\ ~KeyParsed(r) =>
                /\ SentBy(i) = <<>>
                /\ Answered(r) /\ r.response[1] = WrongKey401
           /\ KeyParsed(r) =>
                /\ Len(mine) = 1
                /\ mine[1].tag = "api_key" /\ mine[1].value = KeyOf(r)
                /\ mine[1].value # invalid_key

\* a request without key and one with a wrong key were both answered 401, and
\* the sink holds the counter of the second alone
C11_Witness ==
    /\ Len(requests) = 2
    /\ ~KeyParsed(requests[1])
    /\ KeyParsed(requests[2]) /\ WasDenied(requests[2])
    /\ Answered(requests[1]) /\ Answered(requests[2])
    /\ requests[1].response = requests[2].response
    /\ metrics_log = <<Counter("country", "api_key", BadDownstreamKey, 2)>>

----------------------------------------------------------------------------
(* What the claims about the lookup speak of *)

\* what the database answers for the address of a call
Answer(l) == reader[1][l.ip]

NotFoundAnswer(l) == ~IsOk(Answer(l)) /\ Answer(l)[2][1] = "AddressNotFoundError"

OtherFailures == {"InvalidDatabaseError", "IoError", "MapError", "DecodingError"}

FailedAnswer(l) == ~IsOk(Answer(l)) /\ Answer(l)[2][1] \in OtherFailures

NotLoaded == [message |-> <<"No geoip database available">>]

LocationCountersBy(i) == SelectSeq(SentBy(i), IsLocationCounter)

\* the ISO code of the record a lookup found, if it found one with a code
IsoCodeFound(l) ==
    IF ~IsOk(Answer(l)) \/ Answer(l)[2] = None THEN None
    ELSE IF Answer(l)[2][1].country = None THEN None
    ELSE Answer(l)[2][1].country[1].iso_code

(* C12: on a loaded database locate returns Ok(None), not an error, when the *)
(* database reports AddressNotFoundError; every other failure of the         *)
(* database (invalid database, I/O, map, decoding) is returned as Err, its   *)
(* kind and text kept, and never becomes Ok(None).                           *)
C12_NotFoundIsNotAnError ==
    reader # None =>
        \A i \in 1 .. Len(lookups) :
            LET l == lookups[i]
            IN /\ NotFoundAnswer(l) => l.result = Ok(None)
               /\ FailedAnswer(l) =>
                     /\ ~IsOk(l.result)
                     /\ l.result[2].message = Answer(l)[2]
               /\ l.result = Ok(None) => (NotFoundAnswer(l) \/ Answer(l) = Ok(None))
               /\ ~IsOk(l.result) => FailedAnswer(l)

\* on one database an address that is not found gave Ok(None) and two
\* failing lookups of different kinds gave errors
C12_Witness ==
    /\ reader # None
    /\ Len(lookups) = 3
    /\ NotFoundAnswer(lookups[1]) /\ lookups[1].result = Ok(None)
    /\ FailedAnswer(lookups[2]) /\ ~IsOk(lookups[2].result)
    /\ FailedAnswer(lookups[3]) /\ ~IsOk(lookups[3].result)
    /\ Answer(lookups[2])[2][1] # Answer(lookups[3])[2][1]

(* C13: on an actor built without a database (reader None) every locate call *)
(* fails with the error "No geoip database available", which is not the      *)
(* Ok(None) of an address that is not found, and sends no location counter.  *)
C13_NoDatabase ==
    reader = None =>
        /\ \A i \in 1 .. Len(lookups) :
              /\ lookups[i].result = Err(NotLoaded)
              /\ lookups[i].result # Ok(None)
        /\ metrics_log = <<>>

\* every call allowed was made on an actor without database
C13_Witness ==
    /\ reader = None
    /\ Len(lookups) = MaxLookups
    /\ \E i, j \in 1 .. Len(lookups) : lookups[i].ip # lookups[j].ip

(* C14, as claimed: every locate call on a loaded database sends exactly one *)
(* location counter.                                                         *)
C14_AsClaimed ==
    \A i \in 1 .. Len(lookups) :
        lookups[i].result # Err(NotLoaded) => Len(LocationCountersBy(i)) = 1

(* C14: every locate call that returns Ok sends exactly one location         *)
(* counter, tagged country=<ISO code> when a record with an ISO code was     *)
(* found and country=unknown when no record was found or the record has no   *)
(* ISO code; a call that returns Err, for a database that is not loaded or   *)
(* for a lookup that failed, sends none; no call sends two, and the counters *)
(* reach the sink in the order of the calls.                                 *)
C14_OneLocationCounter ==
    /\ \A i \in 1 .. Len(lookups) :
          LET l == lookups[i]
          IN /\ IsOk(l.result) =>
                   SentBy(i) = <<Counter("location", "country",
                                         IF IsoCodeFound(l) = None THEN unknown
                                         ELSE IsoCodeFound(l)[1], i)>>
             /\ ~IsOk(l.result) => SentBy(i) = <<>>
    /\ \A m, n \in 1 .. Len(metrics_log) : m < n => metrics_log[m].by < metrics_log[n].by

\* the calls of the test: a known address, then one that is not found
C14_Witness ==
    /\ reader = Some(GeoLite2)
    /\ Len(lookups) = 2
    /\ lookups[1].ip = 0 /\ lookups[2].ip = 1
    /\ metrics_log = <<Counter("location", "country", US, 1),
                       Counter("location", "country", unknown, 2)>>

----------------------------------------------------------------------------
(* What the claims about the responses speak of *)

\* the database has no entry for the address request r resolved to
NoEntryFor(r) ==
    /\ r.client_ip # None /\ IsOk(r.client_ip[1])
    /\ reader # None
    /\ LET found == reader[1][r.client_ip[1][2]]
       IN found = Ok(None) \/ (~IsOk(found) /\ found[2][1] = "AddressNotFoundError")

NotFoundBody ==
    [errors |-> <<[domain |-> "geolocation", reason |-> "notFound", message |-> "Not found"]>>,
     code |-> 404,
     message |-> "Not found"]

(* C15: on the keyed endpoint an authorized request whose resolved client IP *)
(* has no entry in the database is answered with status 404 and the fixed    *)
(* body {errors: [{domain: "geolocation", reason: "notFound", message:       *)
(* "Not found"}], code: 404, message: "Not found"}, which is neither the 401 *)
(* of a denial nor the 5xx of a failed lookup.                               *)
C15_NotFound404 ==
    \A i \in 1 .. Len(requests) :
        LET r == requests[i]
        IN (r.pc = "returned" /\ NoEntryFor(r)) =>
              /\ r.response[1].status = 404
              /\ r.response[1].body = <<"json", NotFoundBody>>
              /\ r.response[1] # WrongKey401
              /\ r.response[1].status \notin 500 .. 599

\* the request of the test: an allow-listed key and an address the database
\* does not know, answered 404
C15_Witness ==
    /\ Len(requests) = 1
    /\ reader = Some(GeoLite2)
    /\ KeyParsed(requests[1]) /\ KeyOf(requests[1]) = testkey
    /\ requests[1].pc = "returned"
    /\ NoEntryFor(requests[1])
    /\ requests[1].response[1].status = 404

NoCacheHeader == <<"max-age=0, no-cache, no-store, must-revalidate">>

Is200(r) == r.response # None /\ r.response[1].status = 200

(* C16: every successful (status 200) lookup response carries the header     *)
(* Cache-Control: max-age=0, no-cache, no-store, must-revalidate, on the     *)
(* keyed endpoint (body with country_code and country_name) and on the       *)
(* unauthenticated endpoint (body with request_time and country).            *)
C16_NoCacheOn200 ==
    /\ \A i \in 1 .. Len(requests) :
          Is200(requests[i]) =>
              /\ requests[i].response[1].cache_control = NoCacheHeader
              /\ DOMAIN requests[i].response[1].body[2] = {"country_code", "country_name"}
    /\ \A i \in 1 .. Len(classify_requests) :
          Is200(classify_requests[i]) =>
              /\ classify_requests[i].response[1].cache_control = NoCacheHeader
              /\ DOMAIN classify_requests[i].response[1].body[2] = {"request_time", "country"}

\* each endpoint has answered a request with 200
C16_Witness ==
    /\ Len(requests) = 1 /\ Is200(requests[1])
    /\ Len(classify_requests) = 1 /\ Is200(classify_requests[1])

\* the lookup classify_client made for request r, as a call of locate
LookupOf(r) == [ip |-> r.client_ip[1][2]]

Resolved(r) == r.client_ip # None /\ IsOk(r.client_ip[1])

(* C17: on the unauthenticated endpoint a lookup that finds no record, or a  *)
(* record without an ISO code, yields a 200 response whose country field is  *)
(* null, never a 404 and never an error; when an ISO code is found the       *)
(* country field is that code; the response always has a request_time.       *)
C17_NullCountry ==
    \A i \in 1 .. Len(classify_requests) :
        LET r == classify_requests[i]
            l == LookupOf(r)
        IN (r.pc = "returned" /\ Resolved(r) /\ reader # None /\ ~FailedAnswer(l)) =>
              /\ r.response[1].status = 200
              /\ r.response[1].body[2].request_time \in Instants
              /\ r.response[1].body[2].country =
                    IF IsoCodeFound(l) = None THEN <<"Null", <<>>>>
                    ELSE <<"String", IsoCodeFound(l)[1]>>

\* two answers with null country: one for an address without record, one for
\* a record without code
C17_Witness ==
    /\ reader = Some(Sparse)
    /\ Len(classify_requests) = 2
    /\ Is200(classify_requests[1]) /\ Is200(classify_requests[2])
    /\ Answer(LookupOf(classify_requests[1])) = Ok(None)
    /\ Answer(LookupOf(classify_requests[2])) # Ok(None)
    /\ classify_requests[1].response[1].body[2].country = JsonNull
    /\ classify_requests[2].response[1].body[2].country = JsonNull

\* the client of r cannot be determined: no hop of its trace is untrusted
Unresolvable(r) ==
    FirstUntrusted(ExpectedTrace(r.peer_addr, r.x_forwarded_for), trusted_proxy_list) = 0

\* request r came as far as resolving its client
PastGate(r) == r.pc = "returned" /\ ~WasDenied(r)

(* C18, as claimed: when the client IP cannot be determined both endpoints   *)
(* answer with a client-error (4xx) status.                                  *)
C18_AsClaimed ==
    /\ \A i \in 1 .. Len(requests) :
          (PastGate(requests[i]) /\ Unresolvable(requests[i])) =>
              requests[i].response[1].status \in 400 .. 499
    /\ \A i \in 1 .. Len(classify_requests) :
          Unresolvable(classify_requests[i]) =>
              classify_requests[i].response[1].status \in 400 .. 499

CouldNotDetermine == HttpResponse(500, <<"json", [message |-> <<"Could not determine IP">>]>>, <<>>)

(* C18: when client-IP resolution fails (the trace is empty or exhausted     *)
(* inside trusted ranges) both endpoints answer with status 500 and a JSON   *)
(* body whose message says that the IP could not be determined; no lookup is *)
(* made and no guessed or default IP is used.                                *)
C18_UnresolvedIs500 ==
    /\ \A i \in 1 .. Len(requests) :
          LET r == requests[i]
          IN (PastGate(r) /\ Unresolvable(r)) =>
                /\ ~Resolved(r)
                /\ r.response = <<CouldNotDetermine>>
                /\ r.location = <<>>
                /\ SelectSeq(SentBy(i), IsLocationCounter) = <<>>
    /\ \A i \in 1 .. Len(classify_requests) :
          LET r == classify_requests[i]
          IN Unresolvable(r) =>
                /\ r.pc = "returned"
                /\ ~Resolved(r)
                /\ r.response = <<CouldNotDetermine>>
                /\ r.location = <<>>
                /\ SentBy(0 - i) = <<>>

\* on each endpoint a request whose only hop is a trusted proxy was answered
C18_Witness ==
    /\ trusted_proxy_list # {}
    /\ Len(requests) = 1 /\ PastGate(requests[1]) /\ Unresolvable(requests[1])
    /\ requests[1].x_forwarded_for # None
    /\ Len(classify_requests) = 1 /\ Unresolvable(classify_requests[1])
    /\ classify_requests[1].x_forwarded_for # None

\* text holds the parts in a row
Embeds(text, parts) ==
    \E k \in 0 .. Len(text) - Len(parts) : SubSeq(text, k + 1, k + Len(parts)) = parts

\* the message of the failure of the lookup made for r
FailureOf(r) ==
    IF reader = None THEN <<"No geoip database available">> ELSE Answer(LookupOf(r))[2]

LookupFails(r) == Resolved(r) /\ (reader = None \/ FailedAnswer(LookupOf(r)))

(* C19: when the lookup fails with anything other than address-not-found,    *)
(* the database not being loaded included, the request is answered with a    *)
(* 5xx response that embeds the failure message; it is never answered 200 or *)
(* 404 and never with a null country.                                        *)
C19_LookupFailureIs5xx ==
    /\ \A i \in 1 .. Len(requests) :
          LET r == requests[i]
          IN (PastGate(r) /\ LookupFails(r)) =>
                /\ r.response[1].status \in 500 .. 599
                /\ Embeds(r.response[1].body[2].message, FailureOf(r))
    /\ \A i \in 1 .. Len(classify_requests) :
          LET r == classify_requests[i]
          IN (r.pc = "returned" /\ LookupFails(r)) =>
                /\ r.response[1].status \in 500 .. 599
                /\ "country" \notin DOMAIN r.response[1].body[2]
                /\ Embeds(r.response[1].body[2].error, FailureOf(r))

\* a damaged database failed the lookup on both endpoints
C19_Witness ==
    /\ reader # None
    /\ Len(requests) = 1 /\ PastGate(requests[1]) /\ LookupFails(requests[1])
    /\ Len(classify_requests) = 1 /\ classify_requests[1].pc = "returned"
    /\ LookupFails(classify_requests[1])

\* a response with its request_time left out
Timeless(response) ==
    IF response.status = 200
    THEN [response EXCEPT !.body = <<"json", [country |-> response.body[2].country]>>]
    ELSE response

(* C20: the unauthenticated endpoint never runs the authorization gate: two  *)
(* requests from the same origin get the same response (up to request_time)  *)
(* and cause the same counters whatever key parameter each supplies or       *)
(* omits; the allow-list is never built, whatever the key file holds; no     *)
(* request is answered 401 and no api_key-tagged counter is sent.            *)
C20_NoGateOnClassify ==
    /\ KEYS_HASHSET = <<>>
    /\ \A n \in 1 .. Len(metrics_log) : metrics_log[n].tag # "api_key"
    /\ \A i \in 1 .. Len(classify_requests) :
          LET r == classify_requests[i]
          IN /\ r.response # <<>> => r.response[1].status # 401
             /\ \A j \in 1 .. Len(classify_requests) :
                   LET q == classify_requests[j]
                   IN (/\ r.pc = "returned" /\ q.pc = "returned"
                       /\ r.peer_addr = q.peer_addr
                       /\ r.x_forwarded_for = q.x_forwarded_for) =>
                          /\ Timeless(r.response[1]) = Timeless(q.response[1])
                          /\ [n \in 1 .. Len(SentBy(0 - i)) |-> SentBy(0 - i)[n].value]
                                = [n \in 1 .. Len(SentBy(0 - j)) |-> SentBy(0 - j)[n].value]

\* a request without key and one with a key, from the same client, both
\* answered 200 while the key file lists the key
C20_Witness ==
    /\ api_keys_file # <<>>
    /\ Len(classify_requests) = 2
    /\ classify_requests[1].query_string = <<>>
    /\ classify_requests[2].query_string # <<>>
    /\ classify_requests[1].x_forwarded_for = classify_requests[2].x_forwarded_for
    /\ Is200(classify_requests[1]) /\ Is200(classify_requests[2])

----------------------------------------------------------------------------
(* What the later claims about the endpoints speak of *)

\* the lookup made for r did not fail
LookupGave(r) == r.location # None /\ IsOk(r.location[1])

\* the country sub-record of what the lookup made for r gave, if any
CountryOf(r) ==
    IF r.location[1][2] = None THEN None ELSE r.location[1][2][1].country

(* C29, as claimed: on the keyed endpoint a lookup that does not fail is      *)
(* answered 404 exactly when it gave no record or a record without a country  *)
(* sub-record; whenever a country sub-record is present the answer is 200,    *)
(* with country_code the empty string if the country has no ISO code and      *)
(* country_name the empty string if it has no names.                          *)
C29_AsClaimed ==
    \A i \in 1 .. Len(requests) :
        LET r == requests[i]
        IN LookupGave(r) =>
              /\ Answered(r)
              /\ r.response[1].status = 404 <=> CountryOf(r) = None
              /\ CountryOf(r) # None =>
                    /\ r.response[1].status = 200
                    /\ CountryOf(r)[1].iso_code = None =>
                          r.response[1].body[2].country_code = <<>>
                    /\ CountryOf(r)[1].names = None =>
                          r.response[1].body[2].country_name = ""

\* the end of handling request r alone on a server of this configuration:
\* the steps of get_country one after the other, nothing in between
HandledAlone(r) ==
    LET query == from_query(r.query_string)
    IN IF ~IsOk(query) THEN deny_bad_query.response
       ELSE LET denial == authorize(query[2].key, AllowList, lock_poisoned)
            IN IF denial # None THEN denial[1].response
               ELSE LET ip == client_ip(r.peer_addr, r.x_forwarded_for, trusted_proxy_list)
                    IN IF ~IsOk(ip) THEN error_response(ip[2])
                       ELSE LET found == locate(reader, ip[2], 0).result
                            IN IF IsOk(found) THEN country_response(found[2])
                               ELSE error_response(ClassifyError_from_source(
                                        "Future failure", found[2]))

\* handling r is over
Ended(r) == r.pc \in {"returned", "panicked"}

(* C21: under any interleaving of concurrently handled requests no request    *)
(* changes the trusted proxy list, the key file, the allow-list once it is    *)
(* built or the database handle, the allow-list is what the key file gives,   *)
(* and every request ends as it would have ended handled alone: with the      *)
(* response that follows from the request and the configuration only.         *)
C21_SharedStateReadOnly ==
    /\ [][/\ trusted_proxy_list' = trusted_proxy_list
          /\ api_keys_file' = api_keys_file
          /\ reader' = reader
          /\ KEYS_HASHSET # None => KEYS_HASHSET' = KEYS_HASHSET]_vars
    /\ [](KEYS_HASHSET # None => KEYS_HASHSET[1] = AllowList)
    /\ [](\A i \in 1 .. Len(requests) :
             LET r == requests[i]
             IN /\ r.pc = "returned" => r.response = Some(HandledAlone(r))
                /\ r.pc = "panicked" => HandledAlone(r) = Panic)

\* the second request overtook the first: it built the allow-list and was
\* answered 200 while the first, with the same key, waits for the key check
C21_Witness ==
    /\ Len(requests) = 2
    /\ requests[1].pc = "check_key"
    /\ requests[2].pc = "returned"
    /\ KeyParsed(requests[1]) /\ KeyParsed(requests[2])
    /\ KeyOf(requests[1]) = KeyOf(requests[2])
    /\ KEYS_HASHSET # None
    /\ KeyOf(requests[2]) \in KEYS_HASHSET[1]
    /\ Is200(requests[2])

----------------------------------------------------------------------------
(* The response-metrics middleware: ResponseTimerMiddleware::call           *)
(* (metrics.rs:84-112) and ResponseMetrics::start / finish                  *)
(* (middleware.rs:13-45). A wrapped request is first taken in, then the     *)
(* service it wraps comes to an end.                                        *)

\* how the wrapped service may end: a response of some status, an error in
\* place of a response, or a panic of the handler (as at country.rs:131)
ServiceResults ==
    {Ok(status) : status \in {200, 401, 404, 500}} \cup {Err("error"), <<"Panic">>}

ongoing_requests(delta, by) == Counter("ongoing_requests", "", delta, by)

\* the timer, tagged by resp.status().is_success() (metrics.rs:96-106,
\* middleware.rs:26-37); the duration is left out
response_timer(status, by) ==
    Counter("response", "status", IF status \in 200 .. 299 THEN "success" ELSE "error", by)

\* a request in the hands of a middleware
Wrapped(via, has_state, pc, result) ==
    [via |-> via, has_state |-> has_state, pc |-> pc, result |-> result]

\* metrics.rs:93-111: what the continuation sends when the service future
\* resolves with res; a future that panics is never continued
ResponseTimer_then(res, by) ==
    IF res[1] = "Panic" THEN <<>>
    ELSE IF IsOk(res) THEN <<response_timer(res[2], by), ongoing_requests(-1, by)>>
    ELSE <<>>

\* metrics.rs:84-92: call, up to the call of the wrapped service
ResponseTimer_call(has_state) ==
    /\ emit(IF has_state THEN <<ongoing_requests(1, Len(wrapped) + 1)>> ELSE <<>>)
    /\ wrapped' = Append(wrapped, Wrapped("ResponseTimer", has_state, "in_service", None))
    /\ UNCHANGED <<ip_vars, trusted_proxy_list, ep_vars_but_log, cl_vars,
                   keys_file, api_keys_hashset, sink_fails, heartbeats, loop_iter>>

\* metrics.rs:93-111: the wrapped service of request i ends with res
ResponseTimer_resolve(i, res) ==
    /\ wrapped[i].via = "ResponseTimer"
    /\ wrapped[i].pc = "in_service"
    /\ emit(IF wrapped[i].has_state THEN ResponseTimer_then(res, i) ELSE <<>>)
    /\ wrapped' = [wrapped EXCEPT ![i] = [@ EXCEPT !.pc = "done", !.result = Some(res)]]
    /\ UNCHANGED <<ip_vars, trusted_proxy_list, ep_vars_but_log, cl_vars,
                   keys_file, api_keys_hashset, sink_fails, heartbeats, loop_iter>>

\* middleware.rs:14-21: start; the state is always there
ResponseMetrics_start ==
    /\ emit(<<ongoing_requests(1, Len(wrapped) + 1)>>)
    /\ wrapped' = Append(wrapped, Wrapped("ResponseMetrics", TRUE, "in_service", None))
    /\ UNCHANGED <<ip_vars, trusted_proxy_list, ep_vars_but_log, cl_vars,
                   keys_file, api_keys_hashset, sink_fails, heartbeats, loop_iter>>

\* middleware.rs:23-44: finish is called with the response, which a handler's
\* error has been turned into; after a panic it is not called
ResponseMetrics_finish(i, res) ==
    /\ wrapped[i].via = "ResponseMetrics"
    /\ wrapped[i].pc = "in_service"
    /\ emit(IF res[1] = "Panic" THEN <<>>
            ELSE <<response_timer(IF IsOk(res) THEN res[2] ELSE 500, i),
                   ongoing_requests(-1, i)>>)
    /\ wrapped' = [wrapped EXCEPT ![i] = [@ EXCEPT !.pc = "done", !.result = Some(res)]]
    /\ UNCHANGED <<ip_vars, trusted_proxy_list, ep_vars_but_log, cl_vars,
                   keys_file, api_keys_hashset, sink_fails, heartbeats, loop_iter>>

\* a request is taken in by either middleware, or the wrapped service of one
\* taken in ends
MiddlewareNext ==
    \/ \E has_state \in BOOLEAN : Len(wrapped) < MaxRequests /\ ResponseTimer_call(has_state)
    \/ \E i \in 1 .. Len(wrapped), res \in ServiceResults : ResponseTimer_resolve(i, res)
    \/ Len(wrapped) < MaxRequests /\ ResponseMetrics_start
    \/ \E i \in 1 .. Len(wrapped), res \in ServiceResults : ResponseMetrics_finish(i, res)

\* requests through the middleware, handled concurrently
SpecMiddleware == ServerInit /\ [][MiddlewareNext]_vars

IsOngoing(m) == m.name = "ongoing_requests"

\* increments less decrements of ongoing_requests the sink has received
Ongoing ==
    Len(SelectSeq(metrics_log, LAMBDA m : IsOngoing(m) /\ m.value = 1))
        - Len(SelectSeq(metrics_log, LAMBDA m : IsOngoing(m) /\ m.value = -1))

\* the requests with application state whose wrapped service has not ended
InFlight == {i \in 1 .. Len(wrapped) : wrapped[i].has_state /\ wrapped[i].pc = "in_service"}

\* the three metrics of a request, the timer with either status tag
ThreeMetrics(i) ==
    {<<ongoing_requests(1, i), response_timer(status, i), ongoing_requests(-1, i)>> :
        status \in {200, 500}}

(* C22, as claimed: every request that goes through the response-metrics      *)
(* middleware with application state present sends exactly three metrics, in  *)
(* order: ongoing_requests +1 before the wrapped service is called, one        *)
(* response timer, ongoing_requests -1; so increments less decrements is the   *)
(* number of requests in flight, and zero once every request has completed.    *)
C22_AsClaimed ==
    /\ \A i \in 1 .. Len(wrapped) :
          wrapped[i].has_state =>
              /\ wrapped[i].pc = "in_service" => SentBy(i) = <<ongoing_requests(1, i)>>
              /\ wrapped[i].pc = "done" => SentBy(i) \in ThreeMetrics(i)
    /\ Ongoing = Cardinality(InFlight)

----------------------------------------------------------------------------
(* The heartbeat (endpoints/dockerflow.rs:19-42) *)

\* the address the heartbeat locates, 1.2.3.4 (dockerflow.rs:20)
HEARTBEAT_IP == 0

\* database db with its records moved k addresses down, and one whose
\* countries have an ISO code that is the empty string
Rotated(db, k) == [a \in Addrs |-> db[(a + k) % Cardinality(Addrs)]]
Blank == [a \in Addrs |-> Ok(Some(CountryInfo(Some(Country(Some(<<>>), None)))))]

\* the readers the heartbeat is run on: what HEARTBEAT_IP maps to varies
HealthReaders ==
    Readers \cup {Some(Blank)}
        \cup {Some(Rotated(db, k)) : db \in {GeoLite2, Sparse, Damaged}, k \in 1 .. 3}

heartbeat_result_propagates(located) ==
    IF ~IsOk(located) THEN located
    ELSE IF located[2] = None THEN Ok(FALSE)
    ELSE IF located[2][1].country = None THEN Ok(FALSE)
    ELSE IF located[2][1].country[1].iso_code = None THEN Ok(FALSE)
    ELSE Ok(located[2][1].country[1].iso_code[1] # <<>>)

\* dockerflow.rs:22-33: and_then on the located record, then or(Ok(false))
heartbeat_result(located) ==
    IF ~IsOk(located) THEN Ok(FALSE)
    ELSE IF located[2] = None THEN Ok(FALSE)
    ELSE IF located[2][1].country = None THEN Ok(FALSE)
    ELSE IF located[2][1].country[1].iso_code = None THEN Ok(FALSE)
    ELSE Ok(located[2][1].country[1].iso_code[1] # <<>>)

\* dockerflow.rs:19-42: the handler; its locate call sends the location
\* counter as any other; heartbeats are numbered -1, -2, ... in the counters
heartbeat ==
    LET found == locate(reader, HEARTBEAT_IP, 0 - (Len(heartbeats) + 1))
        res == heartbeat_result(found.result)
    IN /\ emit(found.sent)
       /\ heartbeats' = Append(heartbeats,
              IF IsOk(res)
              THEN Ok(HttpResponse(IF res[2] THEN 200 ELSE 503,
                                   <<"json", [geoip |-> res[2]]>>, None))
              ELSE res)
       /\ UNCHANGED <<ip_vars, trusted_proxy_list, ep_vars_but_log, cl_vars,
                      keys_file, api_keys_hashset, sink_fails, wrapped, loop_iter>>

HealthInit ==
    /\ reader \in HealthReaders
    /\ lookups = <<>> /\ requests = <<>> /\ classify_requests = <<>> /\ metrics_log = <<>>
    /\ trusted_proxy_list = {} /\ api_keys_file = None /\ KEYS_HASHSET = None
    /\ peer_addr = None /\ x_forwarded_for = None /\ op = "none"
    /\ state = PathIpsIter_new /\ path_ips = <<>> /\ calls = 0 /\ ip_result = None
    /\ SvInit

\* heartbeats and lookups on one actor
HealthNext ==
    \/ Len(heartbeats) < MaxRequests /\ heartbeat
    \/ GeoNext

SpecHealth == HealthInit /\ [][HealthNext]_vars

\* what HEARTBEAT_IP maps to in the loaded database is a record with a
\* country whose ISO code is not the empty string
HeartbeatLocates ==
    /\ reader # None
    /\ LET found == reader[1][HEARTBEAT_IP]
       IN /\ IsOk(found)
          /\ found[2] # None
          /\ found[2][1].country # None
          /\ found[2][1].country[1].iso_code # None
          /\ found[2][1].country[1].iso_code[1] # <<>>

(* C23: the heartbeat answers 200 with body {geoip: true} if and only if      *)
(* locating the fixed address gives a record with a country whose ISO code is *)
(* not empty; on a lookup error, an unloaded database, no record, no country  *)
(* or a missing or empty ISO code it answers 503 with body {geoip: false}; it *)
(* always returns a response, never an error.                                 *)
C23_Heartbeat ==
    \A n \in 1 .. Len(heartbeats) :
        /\ IsOk(heartbeats[n])
        /\ heartbeats[n][2] =
              IF HeartbeatLocates
              THEN [status |-> 200, body |-> <<"json", [geoip |-> TRUE]>>, cache_control |-> <<>>]
              ELSE [status |-> 503, body |-> <<"json", [geoip |-> FALSE]>>, cache_control |-> <<>>]

\* a heartbeat answered 200 after a lookup of another address had failed,
\* and the next heartbeat again
C23_Witness ==
    /\ Len(heartbeats) = 2
    /\ heartbeats[1] = heartbeats[2]
    /\ heartbeats[1][2].status = 200
    /\ \E n \in 1 .. Len(lookups) : ~IsOk(lookups[n].result)

----------------------------------------------------------------------------
(* keys::load (keys.rs:7-31) and the JSON text it reads *)

\* most items of an array in a key file
MaxItems == 3

JsonObject == <<"Object", <<>>>>

\* from_str::<Value> (keys.rs:11), serde_json's parser on the texts met here:
\* one value and nothing but spaces after it. A value at position i is a
\* string without escapes, a run of digits, an array of values or the empty
\* object; spaces may surround values.
from_str(text) ==
    LET Parsed(value, next) == [ok |-> TRUE, value |-> value, next |-> next]
        Failed == [ok |-> FALSE, value |-> <<>>, next |-> 0]
        \* the first position from i on that holds no space, no digit
        RECURSIVE skip_ws(_)
        skip_ws(i) == IF i <= Len(text) /\ text[i] = " " THEN skip_ws(i + 1) ELSE i
        RECURSIVE skip_digits(_)
        skip_digits(i) ==
            IF i <= Len(text) /\ text[i] \in {"0", "1"} THEN skip_digits(i + 1) ELSE i
        \* the position of the next quote from i on, 0 if there is none
        RECURSIVE find_quote(_)
        find_quote(i) ==
            IF i > Len(text) THEN 0 ELSE IF text[i] = "\"" THEN i ELSE find_quote(i + 1)
        RECURSIVE parse_value(_), parse_items(_, _)
        parse_value(i) ==
            LET at == skip_ws(i)
            IN IF at > Len(text) THEN Failed
               ELSE IF text[at] = "\""
                    THEN LET close == find_quote(at + 1)
                         IN IF close = 0 THEN Failed
                            ELSE Parsed(JsonString(SubSeq(text, at + 1, close - 1)), close + 1)
               ELSE IF text[at] \in {"0", "1"} THEN Parsed(JsonNumber, skip_digits(at))
               ELSE IF text[at] = "{"
                    THEN IF skip_ws(at + 1) <= Len(text) /\ text[skip_ws(at + 1)] = "}"
                         THEN Parsed(JsonObject, skip_ws(at + 1) + 1)
                         ELSE Failed
               ELSE IF text[at] = "["
                    THEN IF skip_ws(at + 1) <= Len(text) /\ text[skip_ws(at + 1)] = "]"
                         THEN Parsed(JsonArray(<<>>), skip_ws(at + 1) + 1)
                         ELSE parse_items(at + 1, <<>>)
               ELSE Failed
        \* the items of an array from position i on, after the items in done
        parse_items(i, done) ==
            LET item == parse_value(i)
                after == skip_ws(item.next)
            IN IF ~item.ok \/ after > Len(text) THEN Failed
               ELSE IF text[after] = ","
                    THEN parse_items(after + 1, Append(done, item.value))
               ELSE IF text[after] = "]"
                    THEN Parsed(JsonArray(Append(done, item.value)), after + 1)
               ELSE Failed
        v == parse_value(1)
    IN IF v.ok /\ skip_ws(v.next) > Len(text) THEN Ok(v.value)
       ELSE Err("expected value")

load_logs_nothing(file) ==
    IF ~IsOk(file) THEN [keys |-> {}, logged |-> <<>>]
    ELSE IF ~IsOk(from_str(file[2])) THEN [keys |-> {}, logged |-> <<>>]
    ELSE LET json_value == from_str(file[2])[2]
         IN [keys |-> IF json_value[1] # "Array" THEN {}
                      ELSE {json_value[2][n][2] :
                               n \in {k \in 1 .. Len(json_value[2]) :
                                         json_value[2][k][1] = "String"}},
             logged |-> <<>>]

\* keys::load (keys.rs:7-31) on what read_to_string gives: the set returned
\* and the lines logged
load(file) ==
    IF ~IsOk(file)
    THEN [keys |-> {}, logged |-> <<[msg |-> "Error reading api keys file", err |-> file[2]]>>]
    ELSE IF ~IsOk(from_str(file[2]))
    THEN [keys |-> {},
          logged |-> <<[msg |-> "Error parsing api keys file", err |-> from_str(file[2])[2]]>>]
    ELSE LET json_value == from_str(file[2])[2]
         IN [keys |-> IF json_value[1] # "Array" THEN {}
                      ELSE {json_value[2][n][2] :
                               n \in {k \in 1 .. Len(json_value[2]) :
                                         json_value[2][k][1] = "String"}},
             logged |-> <<>>]

\* the text of a JSON value, items parted by a comma and then `gap`
RECURSIVE to_string(_, _)
to_string(value, gap) ==
    CASE value[1] = "String" -> <<"\"">> \o value[2] \o <<"\"">>
      [] value[1] = "Number" -> <<"1", "0">>
      [] value[1] = "Object" -> <<"{", "}">>
      [] OTHER ->
            LET RECURSIVE items(_)
                items(n) ==
                    IF n > Len(value[2]) THEN <<>>
                    ELSE (IF n > 1 THEN <<",">> \o gap ELSE <<>>)
                             \o to_string(value[2][n], gap) \o items(n + 1)
            IN <<"[">> \o items(1) \o <<"]">>

\* the arrays a key file may hold: strings, numbers and arrays as items
JsonArrays ==
    LET JsonItems == {JsonString(<<"f", "o", "o">>), JsonString(<<>>), JsonNumber,
                      JsonArray(<<>>)}
    IN {JsonArray(items) : items \in UNION {[1 .. n -> JsonItems] : n \in 0 .. MaxItems}}

\* the texts of key files that are JSON: arrays, compact and spaced out, and
\* other values
ValidTexts ==
    {to_string(a, gap) : a \in JsonArrays, gap \in {<<>>, <<" ">>}}
        \cup {to_string(v, <<>>) : v \in {JsonString(<<"f", "o", "o">>), JsonNumber, JsonObject}}

\* texts that are no JSON: a value with a character after it, as in the test
\* of load, and a value cut short
CorruptTexts ==
    {t \o <<"z">> : t \in ValidTexts}
        \cup {SubSeq(t, 1, Len(t) - 1) : t \in {v \in ValidTexts : v[1] # "1"}}

KeyFiles ==
    {Err("No such file or directory"), Err("Permission denied")}
        \cup {Ok(t) : t \in ValidTexts \cup CorruptTexts}

\* the process before keys::load has run, on some key file
KeysInit ==
    /\ keys_file \in {Some(f) : f \in KeyFiles}
    /\ api_keys_hashset = None /\ app_log = <<>> /\ sink_fails = FALSE
    /\ heartbeats = <<>> /\ wrapped = <<>> /\ loop_iter = 0
    /\ reader = None /\ lookups = <<>> /\ requests = <<>> /\ classify_requests = <<>>
    /\ metrics_log = <<>> /\ trusted_proxy_list = {} /\ api_keys_file = None
    /\ KEYS_HASHSET = None /\ peer_addr = None /\ x_forwarded_for = None /\ op = "none"
    /\ state = PathIpsIter_new /\ path_ips = <<>> /\ calls = 0 /\ ip_result = None

\* keys::load is called, once
keys_load ==
    /\ api_keys_hashset = None
    /\ api_keys_hashset' = Some(load(keys_file[1]).keys)
    /\ app_log' = app_log \o load(keys_file[1]).logged
    /\ UNCHANGED <<ip_vars, trusted_proxy_list, ep_vars, cl_vars,
                   keys_file, sink_fails, heartbeats, wrapped, loop_iter>>

SpecKeys == KeysInit /\ [][keys_load]_vars

\* the strings among the items of array a
StringsOf(a) == {a[2][n][2] : n \in {k \in 1 .. Len(a[2]) : a[2][k][1] = "String"}}

Loaded == api_keys_hashset # None

(* C24: keys::load always returns a set. For a file that cannot be read the   *)
(* set is empty and exactly one line "Error reading api keys file" is logged; *)
(* for a file that is not valid JSON the set is empty and exactly one line    *)
(* "Error parsing api keys file" is logged; for a valid JSON array the set is *)
(* exactly the array's string items and nothing is logged.                    *)
C24_LoadNeverFails ==
    /\ ~Loaded => app_log = <<>>
    /\ Loaded =>
          LET file == keys_file[1]
              keys == api_keys_hashset[1]
          IN /\ ~IsOk(file) =>
                    /\ keys = {}
                    /\ Len(app_log) = 1
                    /\ app_log[1].msg = "Error reading api keys file"
             /\ (IsOk(file) /\ file[2] \in CorruptTexts) =>
                    /\ keys = {}
                    /\ Len(app_log) = 1
                    /\ app_log[1].msg = "Error parsing api keys file"
             /\ \A a \in JsonArrays, gap \in {<<>>, <<" ">>} :
                    (IsOk(file) /\ file[2] = to_string(a, gap)) =>
                        (keys = StringsOf(a) /\ app_log = <<>>)

\* loaded from an array, spaced out, of two different strings and a number
C24_Witness ==
    /\ Loaded
    /\ keys_file[1] = Ok(to_string(JsonArray(<<JsonString(<<"f", "o", "o">>), JsonNumber,
                                               JsonString(<<>>)>>), <<" ">>))
    /\ api_keys_hashset[1] = {<<"f", "o", "o">>, <<>>}
    /\ app_log = <<>>

----------------------------------------------------------------------------
(* PathIpsIter::next, one loop iteration at a time (utils.rs:60-109), and a *)
(* second iterator made on the same request (utils.rs:35-37)                *)

\* a request, no iterator call made yet
LoopInit ==
    /\ peer_addr \in PeerAddrs
    /\ x_forwarded_for \in XForwardedFors
    /\ trusted_proxy_list = {}
    /\ op = "idle"
    /\ state = PathIpsIter_new
    /\ path_ips = <<>> /\ calls = 0 /\ ip_result = None
    /\ api_keys_file = None /\ KEYS_HASHSET = None /\ reader = None
    /\ requests = <<>> /\ metrics_log = <<>> /\ lookups = <<>> /\ classify_requests = <<>>
    /\ SvInit

\* utils.rs:71-106: one more iteration of the loop, in the call of next under
\* way or as the first of a new call; loop_iter counts the iterations of the
\* call, calls the calls that have returned
PathIpsIter_loop ==
    /\ op = "idle" => calls < MaxTokens + 3
    /\ op = "next" => loop_iter < MaxTokens + 5
    /\ LET step == PathIpsIter_step(peer_addr, x_forwarded_for, state)
       IN /\ state' = step.state
          /\ loop_iter' = IF op = "idle" THEN 1 ELSE loop_iter + 1
          /\ op' = IF step.returns THEN "idle" ELSE "next"
          /\ calls' = IF step.returns THEN calls + 1 ELSE calls
          /\ path_ips' = IF step.item # None THEN Append(path_ips, step.item[1]) ELSE path_ips
    /\ UNCHANGED <<peer_addr, x_forwarded_for, trusted_proxy_list, ip_result, ep_vars, cl_vars,
                   keys_file, api_keys_hashset, app_log, sink_fails, heartbeats, wrapped>>

\* utils.rs:35-37: the first iterator is exhausted and iter_path_ips is
\* called again on the request; what the first yielded is kept in ip_result
iter_path_ips_again ==
    /\ op = "idle" /\ state = Done /\ ip_result = None
    /\ ip_result' = Some(Ok(path_ips))
    /\ state' = PathIpsIter_new
    /\ path_ips' = <<>> /\ calls' = 0 /\ loop_iter' = 0
    /\ UNCHANGED <<peer_addr, x_forwarded_for, trusted_proxy_list, op, ep_vars, cl_vars,
                   keys_file, api_keys_hashset, app_log, sink_fails, heartbeats, wrapped>>

LoopNext == PathIpsIter_loop \/ iter_path_ips_again

SpecLoop == LoopInit /\ [][LoopNext]_vars

\* the tokens of the header the iterator walks: none without a header or for
\* a value that is not text
HeaderTokens ==
    IF x_forwarded_for = None \/ ~IsText(x_forwarded_for[1]) THEN 0
    ELSE TokenCount(x_forwarded_for[1])

IsPrefix(s, t) == Len(s) <= Len(t) /\ s = SubSeq(t, 1, Len(s))

\* no call of next is under way and the iterator has returned None
Exhausted == op = "idle" /\ state = Done

(* C25: the lazy iterator yields the very sequence of the eager list: the     *)
(* peer address if there is one, then the parseable header tokens last token  *)
(* first; what it has yielded so far is always a prefix of that list and all  *)
(* of it once it is exhausted. A second iterator made on the same request     *)
(* yields the same sequence again.                                            *)
C25_LazyIsEager ==
    /\ IsPrefix(path_ips, ExpectedTrace(peer_addr, x_forwarded_for))
    /\ Exhausted => path_ips = ExpectedTrace(peer_addr, x_forwarded_for)
    /\ ip_result # None =>
          /\ ip_result[1][2] = ExpectedTrace(peer_addr, x_forwarded_for)
          /\ IsPrefix(path_ips, ip_result[1][2])
          /\ Exhausted => path_ips = ip_result[1][2]

\* a second iterator is exhausted after yielding, like the first, the peer
\* and one of two tokens
C25_Witness ==
    /\ ip_result # None
    /\ Exhausted
    /\ peer_addr # None
    /\ HeaderTokens = 2
    /\ Len(path_ips) = 2
    /\ path_ips = ip_result[1][2]

(* C26: every call of next terminates: it makes at most one loop iteration    *)
(* per header token and three more. An iteration in state XForwardedFor(i)    *)
(* leaves XForwardedFor(i+1) or Done, so the index strictly increases and     *)
(* never passes the number of tokens; once Done the iterator stays Done and   *)
(* yields nothing more; it yields at most 1 + (number of tokens) addresses.   *)
C26_NextTerminates ==
    /\ [](loop_iter <= HeaderTokens + 3)
    /\ [](state.tag = "XForwardedFor" => state.idx <= HeaderTokens)
    /\ [](Len(path_ips) <= 1 + HeaderTokens)
    /\ [][ip_result' = ip_result =>
            /\ state.tag = "XForwardedFor" =>
                  (state' = XForwardedFor(state.idx + 1) \/ state' = Done)
            /\ state = Done => (state' = Done /\ path_ips' = path_ips)]_vars

\* the first call of next on a request without peer address and with a
\* header of two tokens that do not parse returned None after five
\* iterations, the most a call can take here
C26_Witness ==
    /\ peer_addr = None
    /\ HeaderTokens = 2
    /\ Exhausted
    /\ calls = 1
    /\ loop_iter = HeaderTokens + 3
    /\ path_ips = <<>>

\* the terminal outcomes request r shows, as the claims name them; a request
\* of the classification endpoint whose country is null is one whose location
\* is unknown
OutcomesOf(r) ==
    IF ~Answered(r) THEN {}
    ELSE LET status == r.response[1].status
             resolved == r.client_ip # None /\ IsOk(r.client_ip[1])
             located == r.location # None /\ IsOk(r.location[1])
             null == "country" \in DOMAIN r.response[1].body[2]
                         /\ r.response[1].body[2].country = JsonNull
         IN {o \in {"denial", "client-IP failure", "lookup failure",
                    "location unknown", "success"} :
                CASE o = "denial" -> status = 401 /\ r.client_ip = None
                  [] o = "client-IP failure" ->
                        status = 500 /\ r.client_ip # None /\ ~resolved /\ r.location = None
                  [] o = "lookup failure" ->
                        status \in 500 .. 599 /\ resolved /\ r.location # None /\ ~located
                  [] o = "location unknown" ->
                        located /\ (status = 404 \/ (status = 200 /\ null))
                  [] OTHER -> located /\ status = 200 /\ ~null}

\* the location counters in the sink that request `by` caused
LocationCounters(by) == SelectSeq(SentBy(by), IsLocationCounter)

(* C27, as claimed: each request to either endpoint reaches exactly one       *)
(* terminal outcome (401 denial, client-IP failure, lookup failure, location  *)
(* unknown, or success) and stops at the first failing step; no step is       *)
(* retried: a request is resolved at most once, looked up at most once and    *)
(* sends at most one location counter, and its response is never replaced.    *)
C27_AsClaimed ==
    /\ [](\A i \in 1 .. Len(requests) :
             LET r == requests[i]
             IN /\ Ended(r) => Cardinality(OutcomesOf(r)) = 1
                /\ Len(LocationCounters(i)) <= 1
                /\ r.client_ip = None => r.location = None
                /\ (r.client_ip # None /\ ~IsOk(r.client_ip[1])) =>
                      (r.location = None /\ LocationCounters(i) = <<>>))
    /\ [](\A i \in 1 .. Len(classify_requests) :
             LET r == classify_requests[i]
             IN /\ r.pc = "returned" => Cardinality(OutcomesOf(r)) = 1
                /\ Len(LocationCounters(0 - i)) <= 1
                /\ ~IsOk(r.client_ip[1]) =>
                      (r.location = None /\ LocationCounters(0 - i) = <<>>))
    /\ [][/\ \A i \in 1 .. Len(requests) :
                /\ Ended(requests[i]) => requests'[i] = requests[i]
                /\ requests[i].client_ip # None =>
                      requests'[i].client_ip = requests[i].client_ip
                /\ requests[i].location # None =>
                      requests'[i].location = requests[i].location
          /\ \A i \in 1 .. Len(classify_requests) :
                /\ classify_requests[i].pc = "returned" =>
                      classify_requests'[i] = classify_requests[i]
                /\ classify_requests'[i].client_ip = classify_requests[i].client_ip
                /\ classify_requests[i].location # None =>
                      classify_requests'[i].location = classify_requests[i].location]_vars

----------------------------------------------------------------------------
(* A metrics sink that may fail (metrics.rs:15-46) under the endpoints *)

\* the sink starts or stops failing: the metrics host goes away or comes back
sink_flip ==
    /\ sink_fails' = ~sink_fails
    /\ UNCHANGED <<ip_vars, trusted_proxy_list, ep_vars, cl_vars,
                   keys_file, api_keys_hashset, app_log, heartbeats, wrapped, loop_iter>>

\* requests without key and with a key of the test, from two clients
SinkNext ==
    \/ sink_flip
    \/ \E r \in {q \in SampleRequests : q.query_string \in {<<>>, KeyEq \o testkey}} :
          Len(requests) < MaxRequests /\ get_country_parse(r)
    \/ Authorize
    \/ Locate

\* the keyed endpoint, requests handled concurrently, while the sink comes and goes
SpecSink == ServerInit /\ [][SinkNext]_vars

\* the metrics request i handed to the client that the sink failed to take,
\* as the error lines of the log name them
LostBy(i) == SelectSeq(app_log, LAMBDA l : l.metric.by = i)

\* what request i handed to the client: name, tag and value of each metric
HandedBy(i) ==
    {[name |-> m.name, tag |-> m.tag, value |-> m.value] :
        m \in {SentBy(i)[n] : n \in 1 .. Len(SentBy(i))}
                \cup {LostBy(i)[n].metric : n \in 1 .. Len(LostBy(i))}}

SameRequest(r, q) ==
    /\ r.query_string = q.query_string
    /\ r.peer_addr = q.peer_addr
    /\ r.x_forwarded_for = q.x_forwarded_for

====
